---------------------------- MODULE Spec2Model ----------------------------
(***************************************************************************)
(* HashCSP: the Policy State engine (CSPGenerator), the Local Scanner, the *)
(* Remote Fetcher (fetch_remote_site, step by step) and the validation     *)
(* flow, as a state machine.                                               *)
(*                                                                         *)
(* Text representation.  A Python str is modelled as a sequence of ATOMS:  *)
(* an atom is either one separator character (" " or ";") or a maximal run *)
(* of non-separator characters (a WORD, written as a TLA+ string such as   *)
(* "script-src").  Every text the model builds is canonical (no two words  *)
(* are adjacent), so equality of atom sequences is equality of the Python  *)
(* strings.  A source token, being a str, is a sequence of atoms as well:  *)
(* <<>> is "", <<" ">> is " ", <<"'self'">> is "'self'".  A directive name *)
(* is one word.                                                            *)
(*                                                                         *)
(* A Python dict (insertion ordered) is a sequence of records              *)
(* [name, sources] with pairwise different names.                          *)
(***************************************************************************)
EXTENDS Integers, Sequences, FiniteSets, TLC

VARIABLES
    directives,   \* CSPGenerator.directives : ordered dict name -> list of tokens
    hashes,       \* CSPGenerator.hashes     : the three Hash Buckets
    stats,        \* CSPGenerator.stats      : counters by key
    scanner,      \* a LocalScanner has been constructed on this CSPGenerator
    last,         \* the last operation: its name, arguments and results
    ngen,         \* number of generate_csp executions on this Policy State
    nops,         \* number of operations performed so far
    fetch         \* the fetch_remote_site call in progress: its arguments,
                  \* locals, browser session, event trace and result

vars == <<directives, hashes, stats, scanner, last, ngen, nops, fetch>>

----------------------------------------------------------------------------
(* Bounds of the model *)

MaxOps == 3        \* operations in one run of the Policy State
MaxTextLen == 5    \* atoms of a text handed to _parse_csp

----------------------------------------------------------------------------
(* Atoms, tokens and texts *)

SP == " "
SEMI == ";"
IsSpace(a) == a = SP

EMPTY == <<>>                 \* ""
WS == <<SP>>                  \* " "
SELF == <<"'self'">>
NONE == <<"'none'">>
H1 == <<"'sha256-1'">>        \* the hash token of inline content "c1"
H2 == <<"'sha256-2'">>        \* the hash token of inline content "c2"
U1 == <<"https://a/x">>       \* an external URL

\* str.startswith("'sha256-") on the words of the model's vocabulary
HashWords == {"'sha256-1'", "'sha256-2'", "'sha256-3'", "'sha256-a'"}
StartsWithSha256(tok) == tok # <<>> /\ tok[1] \in HashWords

Range(s) == {s[i] : i \in DOMAIN s}
NoRepeat(s) == \A i, j \in DOMAIN s : i # j => s[i] # s[j]
IsPrefix(s, t) == Len(s) <= Len(t) /\ SubSeq(t, 1, Len(s)) = s

----------------------------------------------------------------------------
(* Ordered dict operations *)

Keys(d) == {d[i].name : i \in DOMAIN d}
Has(d, k) == k \in Keys(d)
IndexOf(d, k) == CHOOSE i \in DOMAIN d : d[i].name = k
\* d.get(k, [])
Get(d, k) == IF Has(d, k) THEN d[IndexOf(d, k)].sources ELSE <<>>
\* d[k] = v : in place when k is a key, appended otherwise
Put(d, k, v) ==
    IF Has(d, k)
    THEN [d EXCEPT ![IndexOf(d, k)].sources = v]
    ELSE Append(d, [name |-> k, sources |-> v])

----------------------------------------------------------------------------
(* CSPGenerator *)

StatKeys == {"files_processed", "files_with_no_inline_scripts",
             "unique_script_hashes", "unique_style_hashes",
             "external_scripts", "external_styles", "external_images",
             "external_fonts", "external_media", "external_connections"}

HashBuckets == {"script-src", "style-src", "style-src-attr"}

InitHashes == [b \in HashBuckets |-> <<>>]
InitStats == [k \in StatKeys |-> 0]

default_directives ==
    << [name |-> "default-src",    sources |-> <<SELF>>],
       [name |-> "script-src",     sources |-> <<SELF>>],
       [name |-> "style-src",      sources |-> <<SELF>>],
       [name |-> "style-src-attr", sources |-> <<>>],
       [name |-> "img-src",        sources |-> <<SELF>>],
       [name |-> "font-src",       sources |-> <<SELF>>],
       [name |-> "media-src",      sources |-> <<SELF>>],
       [name |-> "connect-src",    sources |-> <<SELF>>],
       [name |-> "object-src",     sources |-> <<NONE>>],
       [name |-> "frame-src",      sources |-> <<SELF>>],
       [name |-> "worker-src",     sources |-> <<SELF>>],
       [name |-> "manifest-src",   sources |-> <<SELF>>] >>

\* [source for source in sources if source]
RECURSIVE NonEmptySources(_)
NonEmptySources(sources) ==
    IF sources = <<>> THEN <<>>
    ELSE IF Head(sources) = EMPTY THEN NonEmptySources(Tail(sources))
    ELSE <<Head(sources)>> \o NonEmptySources(Tail(sources))

\* mutant: the new sources are merged into the previous list
UpdatedDirectivesMerging(d, directive, sources) ==
    IF sources = <<>> THEN d
    ELSE Put(d, directive, Get(d, directive) \o NonEmptySources(sources))

\* update_directive: the directives after the call
UpdatedDirectives(d, directive, sources) ==
    IF sources = <<>> THEN d
    ELSE Put(d, directive, NonEmptySources(sources))

\* mutant: the baseline is installed on every call
WithDefaultsAlways(d) == default_directives

\* generate_csp, first half: defaults when the dict is empty, then the
\* script-src and style-src buckets are appended (setdefault(...).extend)
WithDefaults(d) == IF d = <<>> THEN default_directives ELSE d

Extended(d, bucket, hs) ==
    IF hs = <<>> THEN d ELSE Put(d, bucket, Get(d, bucket) \o hs)

MergedDirectives(d, h) ==
    Extended(Extended(WithDefaults(d), "script-src", h["script-src"]),
             "style-src", h["style-src"])

\* " ".join(sources)
RECURSIVE JoinSources(_)
JoinSources(sources) ==
    IF sources = <<>> THEN <<>>
    ELSE IF Len(sources) = 1 THEN sources[1]
    ELSE sources[1] \o <<SP>> \o JoinSources(Tail(sources))

\* mutant: a clause is emitted for a directive with an empty list as well
RECURSIVE CspPartsAll(_)
CspPartsAll(d) ==
    IF d = <<>> THEN <<>>
    ELSE << <<d[1].name>> \o <<SP>> \o JoinSources(d[1].sources) >>
         \o CspPartsAll(Tail(d))

\* the csp_parts list: one clause per directive with a non-empty list
RECURSIVE CspParts(_)
CspParts(d) ==
    IF d = <<>> THEN <<>>
    ELSE IF d[1].sources = <<>> THEN CspParts(Tail(d))
    ELSE << <<d[1].name>> \o <<SP>> \o JoinSources(d[1].sources) >>
         \o CspParts(Tail(d))

\* mutant: the clauses are joined by ";" alone
RECURSIVE JoinPartsTight(_)
JoinPartsTight(parts) ==
    IF parts = <<>> THEN <<>>
    ELSE IF Len(parts) = 1 THEN parts[1]
    ELSE parts[1] \o <<SEMI>> \o JoinPartsTight(Tail(parts))

\* "; ".join(csp_parts)
RECURSIVE JoinParts(_)
JoinParts(parts) ==
    IF parts = <<>> THEN <<>>
    ELSE IF Len(parts) = 1 THEN parts[1]
    ELSE parts[1] \o <<SEMI, SP>> \o JoinParts(Tail(parts))

\* generate_csp, second half: the header string of a directive map
CspHeader(d) ==
    LET joined == JoinParts(CspParts(d))
    IN IF joined = <<>> THEN <<>> ELSE joined \o <<SEMI>>

\* _parse_csp --------------------------------------------------------------

\* str.split(";"): the segments between semicolons, empty ones included
RECURSIVE SplitSemi(_, _, _)
SplitSemi(text, cur, out) ==
    IF text = <<>> THEN Append(out, cur)
    ELSE IF Head(text) = SEMI THEN SplitSemi(Tail(text), <<>>, Append(out, cur))
    ELSE SplitSemi(Tail(text), Append(cur, Head(text)), out)

\* str.strip()
RECURSIVE LStrip(_)
LStrip(text) ==
    IF text # <<>> /\ IsSpace(Head(text)) THEN LStrip(Tail(text)) ELSE text

RECURSIVE RStrip(_)
RStrip(text) ==
    IF text # <<>> /\ IsSpace(text[Len(text)])
    THEN RStrip(SubSeq(text, 1, Len(text) - 1)) ELSE text

\* mutant: the trailing ";" is stripped with the whitespace
RECURSIVE StripSemi(_)
StripSemi(text) ==
    IF text # <<>> /\ text[Len(text)] \in {SP, SEMI}
    THEN StripSemi(SubSeq(text, 1, Len(text) - 1)) ELSE LStrip(text)

Strip(text) == RStrip(LStrip(text))

\* str.split(): the maximal runs of non-whitespace, as tokens
RECURSIVE SplitWs(_, _, _)
SplitWs(text, cur, out) ==
    IF text = <<>> THEN (IF cur = <<>> THEN out ELSE Append(out, cur))
    ELSE IF IsSpace(Head(text))
         THEN SplitWs(Tail(text), <<>>, IF cur = <<>> THEN out ELSE Append(out, cur))
    ELSE SplitWs(Tail(text), Append(cur, Head(text)), out)

\* mutant: a clause whose name was seen before is dropped
RECURSIVE ParsePartsKeepFirst(_, _)
ParsePartsKeepFirst(parts, d) ==
    IF parts = <<>> THEN d
    ELSE LET part == Strip(Head(parts))
             toks == SplitWs(part, <<>>, <<>>)
         IN IF part = <<>> \/ Has(d, toks[1][1])
            THEN ParsePartsKeepFirst(Tail(parts), d)
            ELSE ParsePartsKeepFirst(Tail(parts), Put(d, toks[1][1], Tail(toks)))

\* the loop body of _parse_csp over the list of parts; the directive name is
\* the first token, a single word in a canonical text
RECURSIVE ParseParts(_, _)
ParseParts(parts, d) ==
    IF parts = <<>> THEN d
    ELSE LET part == Strip(Head(parts))
             toks == SplitWs(part, <<>>, <<>>)
         IN IF part = <<>> THEN ParseParts(Tail(parts), d)
            ELSE ParseParts(Tail(parts), Put(d, toks[1][1], Tail(toks)))

ParseCsp(csp) ==
    IF csp = <<>> THEN <<>> ELSE ParseParts(SplitSemi(csp, <<>>, <<>>), <<>>)

\* add_external_resource ----------------------------------------------------

KnownKinds == {"script", "stylesheet", "image", "font", "media", "fetch",
               "websocket"}

\* the table with the stylesheet row pointing at another directive
directive_mapElem(resource_type) ==
    CASE resource_type = "script" -> "script-src"
      [] resource_type = "stylesheet" -> "style-src-elem"
      [] resource_type = "image" -> "img-src"
      [] resource_type = "font" -> "font-src"
      [] resource_type = "media" -> "media-src"
      [] resource_type \in {"fetch", "websocket"} -> "connect-src"

directive_map(resource_type) ==
    CASE resource_type = "script" -> "script-src"
      [] resource_type = "stylesheet" -> "style-src"
      [] resource_type = "image" -> "img-src"
      [] resource_type = "font" -> "font-src"
      [] resource_type = "media" -> "media-src"
      [] resource_type = "fetch" -> "connect-src"
      [] resource_type = "websocket" -> "connect-src"

\* f"external_{resource_type}s", external_media and external_connections
stat_key(resource_type) ==
    CASE resource_type = "media" -> "external_media"
      [] resource_type \in {"fetch", "websocket"} -> "external_connections"
      [] resource_type = "script" -> "external_scripts"
      [] resource_type = "stylesheet" -> "external_stylesheets"
      [] resource_type = "image" -> "external_images"
      [] resource_type = "font" -> "external_fonts"

\* mutant: the counter is taken down by one
BumpDown(st, key) ==
    [k \in DOMAIN st \cup {key} |->
        IF k = key THEN (IF key \in DOMAIN st THEN st[key] ELSE 0) - 1
        ELSE st[k]]

\* self.stats[key] = self.stats.get(key, 0) + 1
Bump(st, key) ==
    [k \in DOMAIN st \cup {key} |->
        IF k = key THEN (IF key \in DOMAIN st THEN st[key] ELSE 0) + 1
        ELSE st[k]]

\* A Policy State as a value: [directives, hashes, stats]
PolicyState == [directives |-> directives, hashes |-> hashes, stats |-> stats]

\* mutant: the membership test is not part of the step that appends
AddedExternalResourceStale(ps, url, resource_type) ==
    IF resource_type \notin KnownKinds THEN ps
    ELSE LET directive == directive_map(resource_type)
         IN [ps EXCEPT
               !.directives = Put(@, directive, Append(Get(@, directive), url)),
               !.stats = Bump(@, stat_key(resource_type))]

AddedExternalResource(ps, url, resource_type) ==
    IF resource_type \notin KnownKinds THEN ps
    ELSE LET directive == directive_map(resource_type)
         IN IF url \in Range(Get(ps.directives, directive)) THEN ps
            ELSE [ps EXCEPT
                    !.directives = Put(@, directive, Append(Get(@, directive), url)),
                    !.stats = Bump(@, stat_key(resource_type))]

\* compute_hash -------------------------------------------------------------

\* hashlib.sha256 on the model's inline contents (taken as collision free)
Sha256Token(content) ==
    CASE content = "c1" -> H1
      [] content = "c2" -> H2
      [] content = "color:red;" -> <<"'sha256-a'">>
      [] content = "console.log(\"Simulated inline script\");" -> <<"'sha256-3'">>

compute_hash(content) == IF content = "" THEN EMPTY ELSE Sha256Token(content)

\* content and content.strip()
NonBlank(content) == content \notin {"", " "}

----------------------------------------------------------------------------
(* LocalScanner *)

\* __init__: the three directive keys are created when absent
RECURSIVE InitKeys(_, _)
InitKeys(d, keys) ==
    IF keys = <<>> THEN d
    ELSE InitKeys(IF Has(d, Head(keys)) THEN d ELSE Put(d, Head(keys), <<>>),
                  Tail(keys))

ScannerInit(d) == InitKeys(d, <<"script-src", "style-src", "img-src">>)

\* mutant: the hash joins its bucket and is not counted
AddInlineHashUncounted(ps, bucket, counter, content) ==
    LET hash_value == compute_hash(content)
    IN IF NonBlank(content) /\ hash_value # EMPTY
          /\ hash_value \notin Range(ps.hashes[bucket])
       THEN [ps EXCEPT !.hashes[bucket] = Append(@, hash_value)]
       ELSE ps

\* one inline <script>/<style>: the hash joins its bucket when new
AddInlineHash(ps, bucket, counter, content) ==
    LET hash_value == compute_hash(content)
    IN IF NonBlank(content) /\ hash_value # EMPTY
          /\ hash_value \notin Range(ps.hashes[bucket])
       THEN [ps EXCEPT !.hashes[bucket] = Append(@, hash_value),
                       !.stats[counter] = @ + 1]
       ELSE ps

RECURSIVE AddInlineHashes(_, _, _, _)
AddInlineHashes(ps, bucket, counter, contents) ==
    IF contents = <<>> THEN ps
    ELSE AddInlineHashes(AddInlineHash(ps, bucket, counter, Head(contents)),
                         bucket, counter, Tail(contents))

\* one <script src>/<link href>/<img src>: the URL joins its directive when new
AddReference(ps, directive, counter, src) ==
    IF src # EMPTY /\ src \notin Range(Get(ps.directives, directive))
    THEN [ps EXCEPT !.directives = Put(@, directive, Append(Get(@, directive), src)),
                    !.stats[counter] = @ + 1]
    ELSE ps

RECURSIVE AddReferences(_, _, _, _)
AddReferences(ps, directive, counter, srcs) ==
    IF srcs = <<>> THEN ps
    ELSE AddReferences(AddReference(ps, directive, counter, Head(srcs)),
                       directive, counter, Tail(srcs))

\* mutant: a failed scan counts as a processed file
ScanSucceedsAlways(f) == TRUE

\* the value scan_html_file returns: False when open/decode/parse raised
\* (not readable) or an element list held a non-Tag (f.non_tag names the
\* list), True otherwise
ScanSucceeds(f) == f.readable /\ f.non_tag = "none"

\* mutant: the no-inline counter looks at inline scripts only
NoInlineContentScripts(f) == f.inline_scripts = <<>>

\* not inline_scripts and not inline_styles (the element lists)
NoInlineContent(f) == f.inline_scripts = <<>> /\ f.inline_styles = <<>>

\* scan_html_file on a parsed document; an unreadable file changes nothing,
\* a non-Tag element ends the scan where it is met, after the lists before
\* it were processed
ScanHtmlFile(ps, f) ==
    IF ~f.readable \/ f.non_tag = "script" THEN ps
    ELSE LET a == AddInlineHashes(ps, "script-src", "unique_script_hashes",
                                  f.inline_scripts)
         IN IF f.non_tag = "style" THEN a
            ELSE
         LET b == AddInlineHashes(a, "style-src", "unique_style_hashes",
                                  f.inline_styles)
             c == AddReferences(b, "script-src", "external_scripts", f.script_srcs)
             e == AddReferences(c, "style-src", "external_styles", f.link_hrefs)
             g == AddReferences(e, "img-src", "external_images", f.img_srcs)
             h == IF NoInlineContent(f)
                  THEN [g EXCEPT !.stats["files_with_no_inline_scripts"] = @ + 1]
                  ELSE g
         IN [h EXCEPT !.stats["files_processed"] = @ + 1]

\* scan_directory: every HTML file of the walk, in order
RECURSIVE ScanDirectory(_, _)
ScanDirectory(ps, files) ==
    IF files = <<>> THEN ps
    ELSE ScanDirectory(ScanHtmlFile(ps, Head(files)), Tail(files))

----------------------------------------------------------------------------
(* RemoteFetcher: static scrape of style attributes *)

\* normalize_css on the style-attribute values of the model
normalize_css(content) ==
    CASE content = "" -> ""
      [] content = " " -> ""
      [] content = "color:red" -> "color:red;"
      [] content = " color : red ; " -> "color:red;"

\* one element with a style attribute; acc = [ps, processed_hashes]
ScrapeStyleAttribute(acc, style_value) ==
    LET normalized_style == normalize_css(style_value)
        hash_value == compute_hash(normalized_style)
    IN IF NonBlank(style_value) /\ normalized_style # "" /\ hash_value # EMPTY
          /\ hash_value \notin Range(acc.ps.hashes["style-src-attr"])
          /\ hash_value \notin acc.processed_hashes
       THEN [ps |-> [acc.ps EXCEPT
                       !.hashes["style-src-attr"] = Append(@, hash_value),
                       !.stats["unique_style_hashes"] = @ + 1],
             processed_hashes |-> acc.processed_hashes \cup {hash_value}]
       ELSE acc

RECURSIVE ScrapeStyleAttributes(_, _)
ScrapeStyleAttributes(acc, style_values) ==
    IF style_values = <<>> THEN acc
    ELSE ScrapeStyleAttributes(ScrapeStyleAttribute(acc, Head(style_values)),
                               Tail(style_values))

----------------------------------------------------------------------------
(* RemoteFetcher.fetch_remote_site *)

\* Optional[str]: None is <<>>, a value v is <<v>>
None == <<>>
Some(v) == <<v>>

\* mutant: the pattern is searched anywhere in the url
re_search_scheme(url) ==
    \E k \in 1..Len(url) :
        LET text == SubSeq(url, k, Len(url))
        IN \/ IsPrefix(<<"h", "t", "t", "p", ":", "/", "/">>, text)
           \/ IsPrefix(<<"h", "t", "t", "p", "s", ":", "/", "/">>, text)

\* re.match(r"^https?://", url) on a str given as its characters: "http",
\* then "s" when it is there, then "://"
re_match_scheme(url) ==
    /\ IsPrefix(<<"h", "t", "t", "p">>, url)
    /\ LET rest == SubSeq(url, 5, Len(url))
           after_s == IF rest # <<>> /\ rest[1] = "s" THEN Tail(rest) ELSE rest
       IN IsPrefix(<<":", "/", "/">>, after_s)

\* the call before it starts: arguments, locals, session, trace and result
NoFetch ==
    [pc |-> "idle", url |-> <<>>, retries |-> 0, interaction_level |-> 0,
     observe_dom |-> FALSE, attempt |-> 0,
     playwright |-> "none", browser |-> "none",
     website_csp_header |-> None, processed_hashes |-> {},
     observed_elements |-> <<>>, content |-> None,
     external_js_urls |-> <<>>, simulated |-> FALSE, observer |-> <<>>,
     trace |-> <<>>, outcome |-> "none", success |-> FALSE, header |-> None]

\* an entry of the trace: page.goto, a logged attempt failure, asyncio.sleep
\* (n seconds), or a response with its headers
NoHeaders == <<>>
Event(e, n, mode, headers) == [e |-> e, n |-> n, mode |-> mode, headers |-> headers]

\* await browser.close()
BrowserClosed(f) == [f EXCEPT !.browser = "closed"]

\* return success, header; leaving the async with block exits Playwright
Returned(f, success, header) ==
    [f EXCEPT !.pc = "done", !.outcome = "returned",
              !.success = success, !.header = header,
              !.playwright = IF @ = "running" THEN "exited" ELSE @]

\* mutant: an exception leaves the Playwright session running
RaisedInSession(f) == [f EXCEPT !.pc = "done", !.outcome = "raised"]

\* an exception inside the async with block: Playwright exits, the outer
\* handler logs and re-raises
Raised(f) ==
    [f EXCEPT !.pc = "done", !.outcome = "raised",
              !.playwright = IF @ = "running" THEN "exited" ELSE @]

\* URL validation, browser launch, page.on("request", ...), observer setup
\* and entry into the retry loop (range(retries + 1) is empty when
\* retries + 1 <= 0); env says which of the launch and the setup raises
FetchStarted(url, retries, interaction_level, observe_dom, env) ==
    LET args == [NoFetch EXCEPT !.url = url, !.retries = retries,
                                !.interaction_level = interaction_level,
                                !.observe_dom = observe_dom]
        launched == [args EXCEPT !.playwright = "running", !.browser = "open"]
    IN IF ~re_match_scheme(url) THEN Returned(args, FALSE, None)
       ELSE IF env = "launch_error"
            THEN Raised([args EXCEPT !.playwright = "running"])
       ELSE IF observe_dom /\ env = "setup_error" THEN Raised(launched)
       ELSE [launched EXCEPT
               !.observer = IF observe_dom THEN <<"setup">> ELSE <<>>,
               !.pc = IF retries + 1 > 0 THEN "navigating" ELSE "interacting"]

\* mutant: the header is looked up under a name the dict never has
HeadersGetNothing(headers) == None

\* headers.get("content-security-policy"); headers is a function from
\* header names to values
HeadersGet(headers) ==
    IF "content-security-policy" \in DOMAIN headers
    THEN Some(headers["content-security-policy"])
    ELSE None

\* mutant: the wait grows linearly
Backoff2(attempt) == 2 * attempt

\* 2**attempt
Backoff(attempt) == 2 ^ attempt

\* a failed attempt: logged; the last one closes the browser and returns
\* (False, None), any other sleeps and goes to the next attempt
AttemptFailed(f, mode) ==
    LET logged == [f EXCEPT
                     !.trace = Append(@, Event("fail", f.attempt, mode, NoHeaders))]
    IN IF f.attempt = f.retries
       THEN Returned(BrowserClosed(logged), FALSE, None)
       ELSE [logged EXCEPT
               !.trace = Append(@, Event("sleep", Backoff(f.attempt), mode, NoHeaders)),
               !.attempt = @ + 1]

\* one iteration of the retry loop; result.kind is what page.goto and
\* response.all_headers did
Navigated(f, result) ==
    LET went == [f EXCEPT
                   !.trace = Append(@, Event("goto", f.attempt, "", NoHeaders))]
    IN IF result.kind = "response"
       THEN [went EXCEPT
               !.website_csp_header = HeadersGet(result.headers),
               !.trace = Append(@, Event("response", f.attempt, "",
                                         result.headers)),
               !.pc = "interacting"]
       ELSE AttemptFailed(went, result.kind)

\* any(keyword in url.lower() for keyword in ["favicon", "icon"])
UIcon == <<"https://a/favicon.ico">>
HasIconKeyword(url) == url \in {UIcon}

\* handle_request: a request of a mapped type is added under its own kind,
\* an image whose URL names an icon is added once more
HandledRequest(ps, url, resource_type) ==
    LET mapped == IF resource_type \in {"script", "stylesheet", "image", "font",
                                         "media", "fetch", "websocket"}
                  THEN AddedExternalResource(ps, url, resource_type)
                  ELSE ps
    IN IF resource_type = "image" /\ HasIconKeyword(url)
       THEN AddedExternalResource(mapped, url, "image")
       ELSE mapped

\* mutant: only the hashes of this call are looked at
AddScrapedHashThisCall(acc, bucket, counter, hash_value) ==
    IF hash_value # EMPTY /\ hash_value \notin acc.processed_hashes
    THEN [ps |-> [acc.ps EXCEPT !.hashes[bucket] = Append(@, hash_value),
                                !.stats[counter] = @ + 1],
          processed_hashes |-> acc.processed_hashes \cup {hash_value}]
    ELSE acc

\* a hash joins its bucket unless the bucket or this call already has it
AddScrapedHash(acc, bucket, counter, hash_value) ==
    IF hash_value # EMPTY
       /\ hash_value \notin Range(acc.ps.hashes[bucket])
       /\ hash_value \notin acc.processed_hashes
    THEN [ps |-> [acc.ps EXCEPT !.hashes[bucket] = Append(@, hash_value),
                                !.stats[counter] = @ + 1],
          processed_hashes |-> acc.processed_hashes \cup {hash_value}]
    ELSE acc

\* tag.lower() on the tag names the observer reports
Lower(tag) ==
    CASE tag = "SCRIPT" -> "script"
      [] tag = "STYLE" -> "style"
      [] tag = "ELEMENT" -> "element"

\* _process_observed_elements, one element; null is None for the tag, ""
\* for content and style, <<>> for src
ProcessObservedElement(acc, element) ==
    IF element.tag = None THEN acc
    ELSE LET tag == Lower(element.tag[1])
         IN IF tag = "script" /\ element.content # "" /\ element.src = <<>>
            THEN AddScrapedHash(acc, "script-src", "unique_script_hashes",
                                compute_hash(element.content))
            ELSE IF tag = "style" /\ element.content # "" /\ element.src = <<>>
            THEN IF normalize_css(element.content) # ""
                 THEN AddScrapedHash(acc, "style-src", "unique_style_hashes",
                                     compute_hash(normalize_css(element.content)))
                 ELSE acc
            ELSE IF tag = "script" /\ element.src # <<>>
            THEN [acc EXCEPT
                    !.ps = AddedExternalResource(@, element.src, "script")]
            ELSE IF element.style # "" /\ normalize_css(element.style) # ""
            THEN AddScrapedHash(acc, "style-src-attr", "unique_style_hashes",
                                compute_hash(normalize_css(element.style)))
            ELSE acc

RECURSIVE ProcessObservedElements(_, _)
ProcessObservedElements(acc, observed_elements) ==
    IF observed_elements = <<>> THEN acc
    ELSE ProcessObservedElements(
             ProcessObservedElement(acc, Head(observed_elements)),
             Tail(observed_elements))

\* static scrape: inline <script> elements
RECURSIVE ScrapeScripts(_, _)
ScrapeScripts(acc, contents) ==
    IF contents = <<>> THEN acc
    ELSE ScrapeScripts(
             IF NonBlank(Head(contents))
             THEN AddScrapedHash(acc, "script-src", "unique_script_hashes",
                                 compute_hash(Head(contents)))
             ELSE acc,
             Tail(contents))

\* static scrape: <style> elements
RECURSIVE ScrapeStyles(_, _)
ScrapeStyles(acc, contents) ==
    IF contents = <<>> THEN acc
    ELSE ScrapeStyles(
             IF NonBlank(Head(contents)) /\ normalize_css(Head(contents)) # ""
             THEN AddScrapedHash(acc, "style-src", "unique_style_hashes",
                                 compute_hash(normalize_css(Head(contents))))
             ELSE acc,
             Tail(contents))

\* static scrape of a DOM snapshot: scripts, styles, style attributes
ScrapedSnapshot(acc, snapshot) ==
    ScrapeStyleAttributes(
        ScrapeStyles(ScrapeScripts(acc, snapshot.inline_scripts),
                     snapshot.inline_styles),
        snapshot.style_attrs)

----------------------------------------------------------------------------
(* Printer.print_csp_diff and CSPGenerator.validate_csp *)

Missing(existing, generated, d) == Range(Get(generated, d)) \ Range(Get(existing, d))
Extra(existing, generated, d) == Range(Get(existing, d)) \ Range(Get(generated, d))
MissingDirectives(existing, generated) == Keys(generated) \ Keys(existing)
ExtraDirectives(existing, generated) == Keys(existing) \ Keys(generated)

\* the keys of the metrics table and the counters each entry holds
LinkOnlyMetrics == {"img-src", "connect-src", "font-src", "media-src", "frame-src"}

\* metrics[directive]["missing_hashes"] += 1 (or extra_hashes) on an entry that
\* holds only the link counters is a KeyError
\* the directives of the metrics table that have hash and link counters
HashLinkMetrics == {"script-src", "style-src"}

\* the counters of one directive of the metrics table after the loop over
\* all directives (the sets make every token count once)
MetricCounts(existing, generated, d) ==
    LET missing == Missing(existing, generated, d)
        extra == Extra(existing, generated, d)
        links == [missing_links |->
                      Cardinality({x \in missing : ~StartsWithSha256(x)}),
                  extra_links |->
                      Cardinality({x \in extra : ~StartsWithSha256(x)})]
    IN IF d \in HashLinkMetrics
       THEN [missing_hashes |->
                 Cardinality({x \in missing : StartsWithSha256(x)}),
             extra_hashes |->
                 Cardinality({x \in extra : StartsWithSha256(x)}),
             missing_links |-> links.missing_links,
             extra_links |-> links.extra_links]
       ELSE links

\* what print_csp_diff works out: the per-directive differences, the
\* directive-level differences and the metrics table (the display shows the
\* first ten differing directives)
DiffReport(existing, generated) ==
    LET all_directives == Keys(existing) \cup Keys(generated)
    IN [missing |-> [d \in all_directives |-> Missing(existing, generated, d)],
        extra |-> [d \in all_directives |-> Extra(existing, generated, d)],
        missing_directives |-> MissingDirectives(existing, generated),
        extra_directives |-> ExtraDirectives(existing, generated),
        metrics |-> [d \in HashLinkMetrics \cup LinkOnlyMetrics |->
                        MetricCounts(existing, generated, d)]]

DiffRaises(existing, generated) ==
    \E d \in (Keys(existing) \cup Keys(generated)) \cap LinkOnlyMetrics :
        \E source \in Missing(existing, generated, d) \cup Extra(existing, generated, d) :
            StartsWithSha256(source)

\* mutant: the generated header only has to start with the stored one
SameHeaderPrefix(existing_csp, new_csp) == IsPrefix(existing_csp, new_csp)

\* existing_csp == new_csp
SameHeader(existing_csp, new_csp) == existing_csp = new_csp

\* validate_csp as a function of the Policy State, the stored policy file and
\* the HTML files under the path: the state it leaves and what it returns
\* mutant: the tree is scanned before the stored policy is opened
ValidateOutcomeScanFirst(ps, stored, files) ==
    LET existing_csp == Strip(stored.content)
        scanned == ScanDirectory([ps EXCEPT !.directives = ScannerInit(@)], files)
        merged == MergedDirectives(scanned.directives, scanned.hashes)
        new_csp == CspHeader(merged)
        same == SameHeader(existing_csp, new_csp)
    IN IF ~stored.readable
       THEN [ps |-> scanned, existing |-> <<>>, csp |-> <<>>,
             ok |-> FALSE, raised |-> FALSE]
       ELSE [ps |-> [scanned EXCEPT !.directives = merged],
             existing |-> existing_csp,
             csp |-> new_csp,
             ok |-> same,
             raised |-> ~same /\ DiffRaises(ParseCsp(existing_csp), ParseCsp(new_csp))]

ValidateOutcome(ps, stored, files) ==
    IF ~stored.readable
    THEN [ps |-> ps, existing |-> <<>>, csp |-> <<>>, ok |-> FALSE, raised |-> FALSE]
    ELSE LET existing_csp == Strip(stored.content)
             scanned == ScanDirectory([ps EXCEPT !.directives = ScannerInit(@)], files)
             merged == MergedDirectives(scanned.directives, scanned.hashes)
             new_csp == CspHeader(merged)
             same == SameHeader(existing_csp, new_csp)
         IN [ps |-> [scanned EXCEPT !.directives = merged],
             existing |-> existing_csp,
             csp |-> new_csp,
             ok |-> same,
             raised |-> ~same /\ DiffRaises(ParseCsp(existing_csp), ParseCsp(new_csp))]

----------------------------------------------------------------------------
(* Inputs *)

DirectiveNames == {"script-src", "img-src"}
\* the sources lists handed to update_directive: none, only an empty string,
\* a whitespace token, a hash token, a repeated token, and a list with an
\* empty string and two different tokens
SourceLists == {<<>>, <<EMPTY>>, <<WS>>, <<H1>>, <<H1, H1>>, <<EMPTY, U1, H1>>}

Urls == {U1}
ResourceKinds == {"script", "image", "beacon"}

NoFile == [readable |-> FALSE, non_tag |-> "none",
           inline_scripts |-> <<>>, inline_styles |-> <<>>,
           script_srcs |-> <<>>, link_hrefs |-> <<>>, img_srcs |-> <<>>]
\* <script>c1</script>
FileInline == [NoFile EXCEPT !.readable = TRUE, !.inline_scripts = <<"c1">>]
\* <img src="https://a/x">, nothing inline
FilePlain == [NoFile EXCEPT !.readable = TRUE, !.img_srcs = <<U1>>]
\* the HTML files of a directory tree, in the order of the walk
Directories == {<<>>, <<FileInline>>, <<FilePlain>>, <<NoFile, FileInline>>}

StyleAttrLists == {<<"color:red">>, <<"", " color : red ; ", "color:red">>}

Readable(text) == [readable |-> TRUE, content |-> text]
StoredFiles ==
    { [readable |-> FALSE, content |-> <<>>],
      Readable(<<>>),
      Readable(<<"img-src", SP>> \o U1 \o <<SP>> \o U1 \o <<SEMI>>),
      Readable(<<"img-src", SP>> \o H1 \o <<SEMI>>),
      Readable(<<SP, "script-src", SP>> \o H1 \o <<SEMI, SP>>) }

----------------------------------------------------------------------------
(* The state machine *)

NoLast == [op |-> "init", directive |-> "", sources |-> <<>>, readable |-> TRUE,
           files |-> <<>>, parsed |-> <<>>, warnings |-> <<>>,
           config |-> <<>>, url |-> <<>>, page |-> <<>>,
           level |-> 0, interactions |-> <<>>, css |-> <<>>,
           stored |-> <<>>, existing |-> <<>>, csp |-> <<>>,
           ok |-> TRUE, raised |-> FALSE]

Init ==
    /\ directives = <<>>
    /\ hashes = InitHashes
    /\ stats = InitStats
    /\ scanner = FALSE
    /\ last = NoLast
    /\ ngen = 0
    /\ nops = 0
    /\ fetch = NoFetch

SetPolicyState(ps) ==
    /\ directives' = ps.directives
    /\ hashes' = ps.hashes
    /\ stats' = ps.stats

UpdateDirective(directive, sources) ==
    /\ nops < MaxOps
    /\ directives' = UpdatedDirectives(directives, directive, sources)
    /\ last' = [NoLast EXCEPT !.op = "update_directive",
                              !.directive = directive, !.sources = sources]
    /\ nops' = nops + 1
    /\ UNCHANGED <<hashes, stats, scanner, ngen, fetch>>

AddExternalResource(url, resource_type) ==
    /\ nops < MaxOps
    /\ SetPolicyState(AddedExternalResource(PolicyState, url, resource_type))
    /\ last' = [NoLast EXCEPT !.op = "add_external_resource",
                              !.directive = resource_type, !.sources = <<url>>]
    /\ nops' = nops + 1
    /\ UNCHANGED <<scanner, ngen, fetch>>

NewLocalScanner ==
    /\ ~scanner
    /\ directives' = ScannerInit(directives)
    /\ scanner' = TRUE
    /\ last' = [NoLast EXCEPT !.op = "LocalScanner"]
    /\ UNCHANGED <<hashes, stats, ngen, nops, fetch>>

ScanDirectoryOp(files) ==
    /\ nops < MaxOps
    /\ scanner
    /\ SetPolicyState(ScanDirectory(PolicyState, files))
    /\ last' = [NoLast EXCEPT !.op = "scan_directory", !.files = files]
    /\ nops' = nops + 1
    /\ UNCHANGED <<scanner, ngen, fetch>>

ScrapeStyleAttributesOp(style_values) ==
    /\ nops < MaxOps
    /\ SetPolicyState(ScrapeStyleAttributes(
                         [ps |-> PolicyState, processed_hashes |-> {}],
                         style_values).ps)
    /\ last' = [NoLast EXCEPT !.op = "scrape_style_attributes"]
    /\ nops' = nops + 1
    /\ UNCHANGED <<scanner, ngen, fetch>>

GenerateCsp ==
    /\ nops < MaxOps
    /\ directives' = MergedDirectives(directives, hashes)
    /\ last' = [NoLast EXCEPT !.op = "generate_csp",
                              !.csp = CspHeader(directives')]
    /\ ngen' = ngen + 1
    /\ nops' = nops + 1
    /\ UNCHANGED <<hashes, stats, scanner, fetch>>

ValidateCsp(stored, files) ==
    /\ nops < MaxOps
    /\ LET out == ValidateOutcome(PolicyState, stored, files)
       IN /\ SetPolicyState(out.ps)
          /\ last' = [NoLast EXCEPT !.op = "validate_csp",
                                    !.existing = out.existing, !.csp = out.csp,
                                    !.ok = out.ok, !.raised = out.raised,
                                    !.readable = stored.readable,
                                    !.stored = stored.content]
    /\ ngen' = IF stored.readable THEN ngen + 1 ELSE ngen
    /\ nops' = nops + 1
    /\ UNCHANGED <<scanner, fetch>>

Next ==
    \/ \E n \in DirectiveNames, s \in SourceLists : UpdateDirective(n, s)
    \/ \E u \in Urls, k \in ResourceKinds : AddExternalResource(u, k)
    \/ NewLocalScanner
    \/ \E fs \in Directories : ScanDirectoryOp(fs)
    \/ \E sv \in StyleAttrLists : ScrapeStyleAttributesOp(sv)
    \/ GenerateCsp
    \/ \E st \in StoredFiles, fs \in Directories : ValidateCsp(st, fs)

Spec == Init /\ [][Next]_vars

\* update_directive and add_external_resource only
NextSeed ==
    \/ \E n \in DirectiveNames, s \in SourceLists : UpdateDirective(n, s)
    \/ \E u \in Urls, k \in ResourceKinds : AddExternalResource(u, k)

SpecSeed == Init /\ [][NextSeed]_vars

\* the generate command: seeding from a declared config whose lists repeat no
\* token, a local scan, serialization
SeedLists == {s \in SourceLists : NoRepeat(s)}

NextScanFlow ==
    \/ \E n \in DirectiveNames, s \in SeedLists : UpdateDirective(n, s)
    \/ NewLocalScanner
    \/ \E fs \in Directories : ScanDirectoryOp(fs)
    \/ GenerateCsp

SpecScanFlow == Init /\ [][NextScanFlow]_vars

\* lint_directives: the warnings, in the order of the directives and of
\* their sources; a warning is the text of the f-string
STAR == <<"*">>
DATA == <<"data:">>
UNSAFE_INLINE == <<"'unsafe-inline'">>
\* mutant: data: is not on the list
unsafe_sourcesNoData == {STAR, UNSAFE_INLINE}
unsafe_sources == {STAR, DATA, UNSAFE_INLINE}
Warning(source, directive) ==
    <<"Unsafe source '">> \o source \o <<"' found in ", directive>>
RECURSIVE LintSources(_, _)
LintSources(directive, sources) ==
    IF sources = <<>> THEN <<>>
    ELSE (IF Head(sources) \in unsafe_sources
          THEN <<Warning(Head(sources), directive)>> ELSE <<>>)
         \o LintSources(directive, Tail(sources))
RECURSIVE lint_directives(_)
lint_directives(ds) ==
    IF ds = <<>> THEN <<>>
    ELSE LintSources(Head(ds).name, Head(ds).sources) \o lint_directives(Tail(ds))

LintDirectives ==
    /\ nops < MaxOps
    /\ last' = [NoLast EXCEPT !.op = "lint_directives",
                              !.warnings = lint_directives(directives)]
    /\ nops' = nops + 1
    /\ UNCHANGED <<directives, hashes, stats, scanner, ngen, fetch>>

\* the generate command with --lint: directives from a config, a scan, lint
LintNames == {"script-src", "custom-directive"}
LintLists == {<<SELF>>, <<SELF, UNSAFE_INLINE>>, <<UNSAFE_INLINE, STAR>>,
              <<DATA>>, <<STAR, STAR>>}
NextLint ==
    \/ \E n \in LintNames, s \in LintLists : UpdateDirective(n, s)
    \/ NewLocalScanner
    \/ ScanDirectoryOp(<<FileInline>>)
    \/ LintDirectives

SpecLint == Init /\ [][NextLint]_vars

\* _parse_csp on every canonical text of up to MaxTextLen atoms
ParseAtoms == {SP, SEMI, "a", "b"}
IsWordAtom(a) == a \notin {SP, SEMI}
Canonical(text) ==
    \A i \in 1..(Len(text) - 1) : ~(IsWordAtom(text[i]) /\ IsWordAtom(text[i + 1]))
ParseTexts ==
    {text \in UNION {[1..n -> ParseAtoms] : n \in 0..MaxTextLen} : Canonical(text)}

InitParse ==
    /\ directives = <<>>
    /\ hashes = InitHashes
    /\ stats = InitStats
    /\ scanner = FALSE
    /\ \E text \in ParseTexts : last = [NoLast EXCEPT !.op = "text", !.stored = text]
    /\ ngen = 0
    /\ nops = 0
    /\ fetch = NoFetch

ParseCspOp ==
    /\ last.op = "text"
    /\ last' = [last EXCEPT !.op = "_parse_csp", !.parsed = ParseCsp(last.stored)]
    /\ UNCHANGED <<directives, hashes, stats, scanner, ngen, nops, fetch>>

SpecParse == InitParse /\ [][ParseCspOp]_vars

\* validation of a seeded Policy State; the stored policies include one
\* with a directive outside the metrics table
StoredPolicies ==
    StoredFiles \cup {Readable(<<"default-src", SP, "'self'", SEMI>>)}

NextValidate ==
    \/ \E n \in DirectiveNames, s \in SeedLists : UpdateDirective(n, s)
    \/ \E st \in StoredPolicies, fs \in Directories : ValidateCsp(st, fs)

SpecValidate == Init /\ [][NextValidate]_vars

\* the Local Scanner alone: files whose scan fails at the start or half way,
\* an inline script that is blank, a <style> element
\* <script> </script>
FileBlankScript == [NoFile EXCEPT !.readable = TRUE, !.inline_scripts = <<" ">>]
\* <style>c2</style><script src="https://a/x">
FileStyle == [NoFile EXCEPT !.readable = TRUE, !.inline_styles = <<"c2">>,
                            !.script_srcs = <<U1>>]
\* <script>c2</script>, then a non-Tag among the <style> elements
FileBadStyle == [NoFile EXCEPT !.readable = TRUE, !.non_tag = "style",
                               !.inline_scripts = <<"c2">>]
\* a non-Tag among the inline <script> elements
FileBadScript == [NoFile EXCEPT !.readable = TRUE, !.non_tag = "script",
                                !.inline_scripts = <<"c1">>]
ScanFiles == {NoFile, FileInline, FilePlain, FileBlankScript, FileStyle,
              FileBadStyle, FileBadScript}
ScanTrees ==
    {<<>>} \cup {<<f>> : f \in ScanFiles}
           \cup {<<f, g>> : f \in {NoFile, FileBadStyle, FileInline},
                            g \in {FileInline, FileStyle, FileBadScript}}

\* scan_html_file called on one file
ScanHtmlFileOp(f) ==
    /\ nops < MaxOps
    /\ scanner
    /\ SetPolicyState(ScanHtmlFile(PolicyState, f))
    /\ last' = [NoLast EXCEPT !.op = "scan_html_file", !.files = <<f>>,
                              !.ok = ScanSucceeds(f)]
    /\ nops' = nops + 1
    /\ UNCHANGED <<scanner, ngen, fetch>>

NextScan ==
    \/ NewLocalScanner
    \/ \E f \in ScanFiles : ScanHtmlFileOp(f)
    \/ \E fs \in ScanTrees : ScanDirectoryOp(fs)

SpecScan == Init /\ [][NextScan]_vars

\* the requests of a page load: add_external_resource for every kind of the
\* table, a kind outside it, and two URLs
U2 == <<"https://b/y">>
ResourceUrls == {U1, U2}
AllResourceKinds == KnownKinds \cup {"beacon"}

NextResources ==
    \E u \in ResourceUrls, k \in AllResourceKinds : AddExternalResource(u, k)

SpecResources == Init /\ [][NextResources]_vars

----------------------------------------------------------------------------
(* fetch_remote_site as a state machine *)

HttpUrl == <<"h", "t", "t", "p", ":", "/", "/", "a">>
HttpsUrl == <<"h", "t", "t", "p", "s", ":", "/", "/", "a">>
\* "https://a", "http://a", "a.co", " http://a", "Http://a", "http:/a",
\* "ftp://a", "httpss://a"
FetchUrls ==
    { HttpsUrl, HttpUrl, <<"a", ".", "c", "o">>, <<" ">> \o HttpUrl,
      <<"H", "t", "t", "p", ":", "/", "/", "a">>,
      <<"h", "t", "t", "p", ":", "/", "a">>,
      <<"f", "t", "p", ":", "/", "/", "a">>,
      <<"h", "t", "t", "p", "s", "s", ":", "/", "/", "a">> }
RetryBudgets == {-1, 0, 1, 3}
InteractionLevels == {0, 1, 2}
Environments == {"ok", "launch_error", "setup_error"}

\* what page.goto and response.all_headers do in one attempt
CspOf(value) == [name \in {"content-security-policy"} |-> value]
NavigationResults ==
    { [kind |-> "exception", headers |-> NoHeaders],
      [kind |-> "no_response", headers |-> NoHeaders],
      [kind |-> "headers_error", headers |-> CspOf("default-src 'none'")],
      [kind |-> "response", headers |-> NoHeaders],
      [kind |-> "response", headers |-> CspOf("default-src 'self'")] }

FetchRequests ==
    { [url |-> U1, resource_type |-> "script"],
      [url |-> UIcon, resource_type |-> "image"],
      [url |-> U1, resource_type |-> "ping"] }

ObservedLists ==
    { <<>>,
      <<[tag |-> Some("SCRIPT"), content |-> "c2", src |-> <<>>, style |-> ""],
        [tag |-> None, content |-> "", src |-> <<>>, style |-> "color:red"]>>,
      <<[tag |-> Some("ELEMENT"), content |-> "", src |-> <<>>,
         style |-> "color:red"]>> }

Snapshots ==
    { [readable |-> FALSE, non_tag |-> FALSE, inline_scripts |-> <<>>,
       inline_styles |-> <<>>, style_attrs |-> <<>>],
      [readable |-> TRUE, non_tag |-> TRUE, inline_scripts |-> <<"c1">>,
       inline_styles |-> <<>>, style_attrs |-> <<>>],
      [readable |-> TRUE, non_tag |-> FALSE, inline_scripts |-> <<"c1">>,
       inline_styles |-> <<" ">>, style_attrs |-> <<"color:red">>] }

FetchFrame == UNCHANGED <<directives, hashes, stats, scanner, last, ngen, nops>>

FetchStart(url, retries, interaction_level, observe_dom, env) ==
    /\ fetch.pc = "idle"
    /\ fetch' = FetchStarted(url, retries, interaction_level, observe_dom, env)
    /\ FetchFrame

Navigate(result) ==
    /\ fetch.pc = "navigating"
    /\ fetch' = Navigated(fetch, result)
    /\ FetchFrame

\* the request callback runs whenever the call awaits the page
HandleRequest(request) ==
    /\ fetch.pc \in {"navigating", "interacting", "dynamic", "scraping",
                     "finalizing"}
    /\ nops < MaxOps
    /\ SetPolicyState(HandledRequest(PolicyState, request.url,
                                     request.resource_type))
    /\ fetch' = [fetch EXCEPT !.external_js_urls =
                     IF request.resource_type = "script"
                     THEN Append(@, request.url) ELSE @]
    /\ nops' = nops + 1
    /\ UNCHANGED <<scanner, last, ngen>>

\* what the texts of the requested external scripts are like: none of the
\* patterns, one of them ("innerhtml", ...), or the request for the text fails
JsAnalyses == {"plain", "inserts", "error"}

\* for js_url in external_js_urls: a text with a pattern makes the call
\* append <script>console.log("Simulated inline script");</script> to the body
SimulatesInsertion(external_js_urls, js) ==
    external_js_urls # <<>> /\ js = "inserts"

\* scroll and re-settle at level >= 1, query_selector_all at level >= 2
\* (clicks, hovers and the analysis of external scripts catch their own
\* errors); err names the call that raises
Interact(err, js) ==
    /\ fetch.pc = "interacting"
    /\ fetch' = IF \/ (fetch.interaction_level >= 1 /\ err = "scroll")
                   \/ (fetch.interaction_level >= 2 /\ err = "query")
                THEN Raised(fetch)
                ELSE [fetch EXCEPT !.pc = "dynamic",
                        !.simulated = SimulatesInsertion(fetch.external_js_urls, js)]
    /\ FetchFrame

\* mutant: a failed read hands on what the buffer held
GotObservedElementsAnyway(observed_elements, err) == observed_elements
\* _get_observed_elements: the buffer, or [] when the read fails
GotObservedElements(observed_elements, err) ==
    IF err = "read" THEN <<>> ELSE observed_elements

\* if observe_dom: _get_observed_elements, _process_observed_elements
\* err names the call that fails: the read of the buffer ("read"), the
\* processing of an element ("process"), the disconnect ("disconnect")
ProcessDynamic(observed_elements, err) ==
    /\ fetch.pc = "dynamic"
    /\ IF ~fetch.observe_dom
       THEN /\ fetch' = [fetch EXCEPT !.pc = "scraping"]
            /\ UNCHANGED <<directives, hashes, stats>>
       ELSE IF err = "process"
       THEN /\ fetch' = Raised([fetch EXCEPT !.observer = Append(@, "pull")])
            /\ UNCHANGED <<directives, hashes, stats>>
       ELSE LET elements == GotObservedElements(observed_elements, err)
                acc == ProcessObservedElements(
                           [ps |-> PolicyState,
                            processed_hashes |-> fetch.processed_hashes],
                           elements)
            IN /\ SetPolicyState(acc.ps)
               /\ fetch' = [fetch EXCEPT !.pc = "scraping",
                              !.observed_elements = elements,
                              !.observer = @ \o
                                  <<IF err = "read" THEN "pull_failed" ELSE "pull",
                                    IF err = "disconnect" THEN "disconnect_failed"
                                    ELSE "disconnect">>,
                              !.processed_hashes = acc.processed_hashes]
    /\ UNCHANGED <<scanner, last, ngen, nops>>

\* the DOM that page.content() serializes: what the site rendered, and the
\* script the call appended to the body
SimulatedScript == "console.log(\"Simulated inline script\");"
Rendered(snapshot, simulated) ==
    IF simulated
    THEN [snapshot EXCEPT !.inline_scripts = Append(@, SimulatedScript)]
    ELSE snapshot

\* page.content() and the three scrapes of the snapshot
ScrapeStatic(snapshot) ==
    /\ fetch.pc = "scraping"
    /\ IF ~snapshot.readable \/ snapshot.non_tag
       THEN /\ fetch' = Raised(fetch)
            /\ UNCHANGED <<directives, hashes, stats>>
       ELSE LET acc == ScrapedSnapshot(
                           [ps |-> PolicyState,
                            processed_hashes |-> fetch.processed_hashes],
                           Rendered(snapshot, fetch.simulated))
            IN /\ SetPolicyState(acc.ps)
               /\ fetch' = [fetch EXCEPT !.pc = "finalizing",
                              !.content = Some(snapshot),
                              !.processed_hashes = acc.processed_hashes]
    /\ UNCHANGED <<scanner, last, ngen, nops>>

\* the final wait, browser.close() and return True, website_csp_header
Finalize(err) ==
    /\ fetch.pc = "finalizing"
    /\ fetch' = IF err THEN Raised(fetch)
                ELSE Returned(BrowserClosed(fetch), TRUE,
                              fetch.website_csp_header)
    /\ FetchFrame

\* the Policy State may hold entries before the call
Seeded ==
    /\ fetch.pc = "idle"
    /\ AddExternalResource(U1, "script")

NextFetch ==
    \/ Seeded
    \/ \E u \in FetchUrls, r \in RetryBudgets, il \in InteractionLevels,
          od \in BOOLEAN, env \in Environments : FetchStart(u, r, il, od, env)
    \/ \E result \in NavigationResults : Navigate(result)
    \/ \E request \in FetchRequests : HandleRequest(request)
    \/ \E err \in {"none", "scroll", "query"} : Interact(err, "plain")
    \/ \E oe \in ObservedLists, err \in {"none", "process"} : ProcessDynamic(oe, err)
    \/ \E snapshot \in Snapshots : ScrapeStatic(snapshot)
    \/ \E err \in BOOLEAN : Finalize(err)

SpecFetch == Init /\ [][NextFetch]_vars

----------------------------------------------------------------------------
(* One Policy State through all its operations *)

\* the operations a caller runs before or after a remote fetch
OutsideFetch == fetch.pc \in {"idle", "done"}

NextLifecycle ==
    \/ OutsideFetch /\ UpdateDirective("script-src", <<H1>>)
    \/ OutsideFetch /\ \E k \in {"script", "stylesheet"} : AddExternalResource(U1, k)
    \/ OutsideFetch /\ NewLocalScanner
    \/ OutsideFetch /\ \E f \in {FileInline, FileBadStyle} : ScanHtmlFileOp(f)
    \/ OutsideFetch /\ \E fs \in {<<FilePlain>>, <<NoFile, FileInline>>} :
                           ScanDirectoryOp(fs)
    \/ OutsideFetch /\ GenerateCsp
    \/ OutsideFetch /\ LintDirectives
    \/ OutsideFetch /\ \E st \in {[readable |-> FALSE, content |-> <<>>],
                                  Readable(<<>>)} : ValidateCsp(st, <<FileInline>>)
    \/ \E od \in BOOLEAN : FetchStart(HttpUrl, 0, 0, od, "ok")
    \/ \E result \in NavigationResults : Navigate(result)
    \/ \E request \in FetchRequests : HandleRequest(request)
    \/ Interact("none", "plain")
    \/ \E oe \in ObservedLists : ProcessDynamic(oe, "none")
    \/ \E snapshot \in Snapshots : ScrapeStatic(snapshot)
    \/ Finalize(FALSE)

SpecLifecycle == Init /\ [][NextLifecycle]_vars

----------------------------------------------------------------------------
(* Request callbacks during a fetch *)

\* the requests a page makes: the same URL under two kinds of one directive,
\* under kinds of different directives, a second URL, an icon
CallbackRequests ==
    { [url |-> U1, resource_type |-> "script"],
      [url |-> U2, resource_type |-> "script"],
      [url |-> U1, resource_type |-> "stylesheet"],
      [url |-> U1, resource_type |-> "fetch"],
      [url |-> U1, resource_type |-> "websocket"],
      [url |-> UIcon, resource_type |-> "image"] }

\* what the observer buffered: an external script the page also requested,
\* and inline content the snapshot holds as well
CallbackObserved ==
    { <<>>,
      <<[tag |-> Some("SCRIPT"), content |-> "", src |-> U1, style |-> ""],
        [tag |-> Some("SCRIPT"), content |-> "c1", src |-> <<>>, style |-> ""]>> }

NextCallbacks ==
    \/ Seeded
    \/ FetchStart(HttpUrl, 0, 0, TRUE, "ok")
    \/ \E result \in NavigationResults : Navigate(result)
    \/ \E request \in CallbackRequests : HandleRequest(request)
    \/ \E js \in JsAnalyses : Interact("none", js)
    \/ \E oe \in CallbackObserved : ProcessDynamic(oe, "none")
    \/ \E snapshot \in Snapshots : ScrapeStatic(snapshot)
    \/ Finalize(FALSE)

SpecCallbacks == Init /\ [][NextCallbacks]_vars

----------------------------------------------------------------------------
(* Local scans and a remote fetch that meet the same inline content *)

\* the observer reports nothing, an inline script whose text is a
\* declaration list, or an inline script and an element with a style
\* attribute
KindObserved ==
    { <<>>,
      <<[tag |-> Some("SCRIPT"), content |-> "color:red;", src |-> <<>>,
         style |-> ""]>>,
      <<[tag |-> Some("SCRIPT"), content |-> "c2", src |-> <<>>, style |-> ""],
        [tag |-> Some("ELEMENT"), content |-> "", src |-> <<>>,
         style |-> " color : red ; "]>> }

\* <script>c1</script><style>color:red</style><p style="color:red">, the
\* same without the <style>, and a snapshot whose parse yields a non-Tag
KindSnapshots ==
    { [readable |-> TRUE, non_tag |-> FALSE, inline_scripts |-> <<"c1">>,
       inline_styles |-> <<"color:red">>, style_attrs |-> <<"color:red">>],
      [readable |-> TRUE, non_tag |-> FALSE, inline_scripts |-> <<"c1">>,
       inline_styles |-> <<>>, style_attrs |-> <<"color:red">>],
      [readable |-> TRUE, non_tag |-> TRUE, inline_scripts |-> <<"c1">>,
       inline_styles |-> <<>>, style_attrs |-> <<>>] }

NextHashes ==
    \/ OutsideFetch /\ NewLocalScanner
    \/ OutsideFetch /\ \E f \in {FileInline, FileStyle, FileBadStyle} : ScanHtmlFileOp(f)
    \/ \E od \in BOOLEAN : FetchStart(HttpUrl, 0, 0, od, "ok")
    \/ \E result \in NavigationResults : Navigate(result)
    \/ Interact("none", "plain")
    \/ \E oe \in KindObserved : ProcessDynamic(oe, "none")
    \/ \E snapshot \in KindSnapshots : ScrapeStatic(snapshot)
    \/ \E err \in BOOLEAN : Finalize(err)

SpecHashes == Init /\ [][NextHashes]_vars

----------------------------------------------------------------------------
(* The generate command and the validate command on one tree and config *)

FreshPolicyState == [directives |-> <<>>, hashes |-> InitHashes, stats |-> InitStats]

\* for directive, sources in config.directives.items(): update_directive
RECURSIVE SeedConfig(_, _)
SeedConfig(ps, config) ==
    IF config = <<>> THEN ps
    ELSE SeedConfig([ps EXCEPT !.directives =
                        UpdatedDirectives(@, Head(config).name, Head(config).sources)],
                    Tail(config))

\* generate: CSPGenerator(), LocalScanner(csp), the config, scan_directory,
\* generate_csp; the text that is written to the output file
GenerateCommand(config, files) ==
    LET seeded == SeedConfig([FreshPolicyState EXCEPT !.directives = ScannerInit(@)],
                             config)
        scanned == ScanDirectory(seeded, files)
    IN CspHeader(MergedDirectives(scanned.directives, scanned.hashes))

\* validate: CSPGenerator(), the config, validate_csp(file, path)
ValidateCommand(config, stored, files) ==
    ValidateOutcome(SeedConfig(FreshPolicyState, config), stored, files)

\* the declared configs: no directive, one, or two different ones
ConfigNames == {"default-src", "script-src", "img-src"}
ConfigEntries ==
    {[name |-> n, sources |-> srcs] : n \in ConfigNames, srcs \in {<<SELF>>, <<SELF, U1>>}}
Configs ==
    {<<>>} \cup {<<a>> : a \in ConfigEntries}
           \cup {ab \in {<<a, b>> : a \in ConfigEntries, b \in ConfigEntries} :
                    ab[1].name # ab[2].name}

InitCommands ==
    /\ directives = <<>>
    /\ hashes = InitHashes
    /\ stats = InitStats
    /\ scanner = FALSE
    /\ \E config \in Configs, files \in Directories :
         last = [NoLast EXCEPT !.op = "tree", !.config = config, !.files = files]
    /\ ngen = 0
    /\ nops = 0
    /\ fetch = NoFetch

\* hashcsp generate on the tree, then hashcsp validate on the file it wrote
GenerateThenValidate ==
    /\ last.op = "tree"
    /\ LET csp_header == GenerateCommand(last.config, last.files)
           out == ValidateCommand(last.config, Readable(csp_header), last.files)
       IN last' = [last EXCEPT !.op = "generate_validate",
                               !.stored = csp_header, !.existing = out.existing,
                               !.csp = out.csp, !.ok = out.ok,
                               !.raised = out.raised]
    /\ UNCHANGED <<directives, hashes, stats, scanner, ngen, nops, fetch>>

SpecCommands == InitCommands /\ [][GenerateThenValidate]_vars

----------------------------------------------------------------------------
(* The fetch command: fetch_remote_site_async *)

\* url.startswith(("http://", "https://"))
StartsWithScheme(url) == IsPrefix(HttpUrl, url) \/ IsPrefix(HttpsUrl, url)

\* handle_request of the command: the directive a request is filed under
NetworkDirective(resource_type) ==
    CASE resource_type = "script" -> "script-src"
      [] resource_type = "stylesheet" -> "style-src"
      [] resource_type = "image" -> "img-src"
      [] resource_type \in {"xhr", "fetch"} -> "connect-src"
      [] resource_type = "font" -> "font-src"
      [] resource_type = "media" -> "media-src"
      [] OTHER -> ""

\* the counter the command keeps for a directive ("" for none)
CommandCounter(directive) ==
    CASE directive = "script-src" -> "external_scripts"
      [] directive = "style-src" -> "external_styles"
      [] directive = "img-src" -> "external_images"
      [] OTHER -> ""

\* if src and src not in csp.directives[directive]: append, count; the
\* subscript raises KeyError when the directive is not a key.
\* acc = [ps, raised]
CommandAdd(acc, directive, src) ==
    IF acc.raised \/ src = EMPTY THEN acc
    ELSE IF ~Has(acc.ps.directives, directive) THEN [acc EXCEPT !.raised = TRUE]
    ELSE IF src \in Range(Get(acc.ps.directives, directive)) THEN acc
    ELSE [acc EXCEPT
            !.ps.directives = Put(@, directive, Append(Get(@, directive), src)),
            !.ps.stats = IF CommandCounter(directive) = "" THEN @
                         ELSE [@ EXCEPT ![CommandCounter(directive)] = @ + 1]]

RECURSIVE CommandAddAll(_, _, _)
CommandAddAll(acc, directive, srcs) ==
    IF srcs = <<>> THEN acc
    ELSE CommandAddAll(CommandAdd(acc, directive, Head(srcs)), directive, Tail(srcs))

\* network_resources[directive]: the URLs requested under the directive
RequestedUnder(requests, directive) ==
    SelectSeq(requests, LAMBDA r : NetworkDirective(r.resource_type) = directive)
RECURSIVE UrlsOf(_)
UrlsOf(requests) ==
    IF requests = <<>> THEN <<>> ELSE <<Head(requests).url>> \o UrlsOf(Tail(requests))

\* for directive, sources in network_resources.items()
RECURSIVE CommandMerge(_, _, _)
CommandMerge(acc, requests, names) ==
    IF names = <<>> THEN acc
    ELSE CommandMerge(
             CommandAddAll(acc, Head(names), UrlsOf(RequestedUnder(requests, Head(names)))),
             requests, Tail(names))

\* the whole call: [ps, ok]; every exception is caught and gives False
fetch_remote_site_async(ps, url, page) ==
    IF ~StartsWithScheme(url) \/ ~page.loads THEN [ps |-> ps, ok |-> FALSE]
    ELSE LET a == AddInlineHashes(ps, "script-src", "unique_script_hashes",
                                  page.inline_scripts)
             b == AddInlineHashes(a, "style-src", "unique_style_hashes",
                                  page.inline_styles)
             c == CommandAddAll([ps |-> b, raised |-> FALSE], "script-src",
                                page.script_srcs)
             e == CommandAddAll(c, "style-src", page.link_hrefs)
             g == CommandAddAll(e, "img-src", page.img_srcs)
             h == CommandAddAll(g, "frame-src", page.frame_srcs)
             m == CommandMerge(h, page.requests,
                               <<"script-src", "style-src", "img-src", "connect-src",
                                 "font-src", "media-src", "frame-src">>)
         IN IF m.raised THEN [ps |-> m.ps, ok |-> FALSE]
            ELSE [ps |-> IF page.inline_scripts = <<>> /\ page.inline_styles = <<>>
                         THEN [m.ps EXCEPT
                                 !.stats["files_with_no_inline_scripts"] = @ + 1]
                         ELSE m.ps,
                  ok |-> TRUE]

\* pages: one that fails to load, one with inline content only, and pages
\* that reference or request one external URL
NoPage == [loads |-> TRUE, inline_scripts |-> <<>>, inline_styles |-> <<>>,
           script_srcs |-> <<>>, link_hrefs |-> <<>>, img_srcs |-> <<>>,
           frame_srcs |-> <<>>, requests |-> <<>>]
CommandPages ==
    { [NoPage EXCEPT !.loads = FALSE],
      [NoPage EXCEPT !.inline_scripts = <<"c1">>],
      [NoPage EXCEPT !.inline_scripts = <<"c1">>, !.script_srcs = <<U1>>],
      [NoPage EXCEPT !.img_srcs = <<EMPTY, U1>>],
      [NoPage EXCEPT !.frame_srcs = <<U1>>],
      [NoPage EXCEPT !.requests = <<[url |-> U1, resource_type |-> "script"],
                                    [url |-> U1, resource_type |-> "script"]>>],
      [NoPage EXCEPT !.requests = <<[url |-> U1, resource_type |-> "font"]>>],
      [NoPage EXCEPT !.requests = <<[url |-> U1, resource_type |-> "xhr"]>>],
      [NoPage EXCEPT !.requests = <<[url |-> U1, resource_type |-> "ping"]>>] }

FetchCommand(url, page) ==
    /\ nops < MaxOps
    /\ LET out == fetch_remote_site_async(PolicyState, url, page)
       IN /\ SetPolicyState(out.ps)
          /\ last' = [NoLast EXCEPT !.op = "fetch_remote_site_async",
                                    !.url = url, !.page = <<page>>, !.ok = out.ok]
    /\ nops' = nops + 1
    /\ UNCHANGED <<scanner, ngen, fetch>>

\* the command's CSPGenerator is fresh; a caller may also hand over one that
\* a LocalScanner or a config has given directive keys
NextFetchCommand ==
    \/ NewLocalScanner
    \/ UpdateDirective("font-src", <<SELF>>)
    \/ \E url \in {HttpUrl, <<"a", ".", "c", "o">>}, page \in CommandPages :
          FetchCommand(url, page)

SpecFetchCommand == Init /\ [][NextFetchCommand]_vars

----------------------------------------------------------------------------
(* The interactions of fetch_remote_site *)

\* buttons[:5], hoverable[:5]
InteractionLimit == 5
Slice(elements) ==
    SubSeq(elements, 1, IF Len(elements) < InteractionLimit
                        THEN Len(elements) ELSE InteractionLimit)

\* for element in buttons[:5]: click when is_visible() and is_enabled()
RECURSIVE Clicks(_)
Clicks(buttons) ==
    IF buttons = <<>> THEN <<>>
    ELSE (IF Head(buttons).visible /\ Head(buttons).enabled
          THEN <<[e |-> "click", element |-> Head(buttons)]>> ELSE <<>>)
         \o Clicks(Tail(buttons))

\* for element in hoverable[:5]: hover when is_visible()
RECURSIVE Hovers(_)
Hovers(hoverable) ==
    IF hoverable = <<>> THEN <<>>
    ELSE (IF Head(hoverable).visible
          THEN <<[e |-> "hover", element |-> Head(hoverable)]>> ELSE <<>>)
         \o Hovers(Tail(hoverable))

NoElement == [visible |-> FALSE, enabled |-> FALSE]
\* what the call does to the page at an interaction level, in order
Interactions(interaction_level, page) ==
    (IF interaction_level >= 1 THEN <<[e |-> "scroll", element |-> NoElement]>>
     ELSE <<>>)
    \o (IF interaction_level >= 2
        THEN Clicks(Slice(page.buttons)) \o Hovers(Slice(page.hoverable))
        ELSE <<>>)

Element(visible, enabled) == [visible |-> visible, enabled |-> enabled]
\* what query_selector_all("button, a[href], [onclick]") returns
ButtonLists ==
    { <<>>,
      <<Element(TRUE, TRUE)>>,
      <<Element(TRUE, TRUE), Element(FALSE, TRUE), Element(TRUE, FALSE)>>,
      <<Element(TRUE, TRUE), Element(TRUE, TRUE), Element(TRUE, TRUE),
        Element(TRUE, TRUE), Element(TRUE, TRUE), Element(TRUE, TRUE)>> }
\* what query_selector_all("[onmouseover]") returns
HoverLists ==
    { <<>>,
      <<Element(TRUE, TRUE)>>,
      <<Element(FALSE, TRUE), Element(TRUE, FALSE)>>,
      <<Element(TRUE, TRUE), Element(TRUE, TRUE), Element(TRUE, TRUE)>> }
AllInteractionLevels == {0, 1, 2, 3}

InitInteract ==
    /\ directives = <<>>
    /\ hashes = InitHashes
    /\ stats = InitStats
    /\ scanner = FALSE
    /\ \E il \in AllInteractionLevels, bs \in ButtonLists, hs \in HoverLists :
         last = [NoLast EXCEPT !.op = "page", !.level = il,
                               !.page = <<[buttons |-> bs, hoverable |-> hs]>>]
    /\ ngen = 0
    /\ nops = 0
    /\ fetch = NoFetch

InteractOp ==
    /\ last.op = "page"
    /\ last' = [last EXCEPT !.op = "interact",
                            !.interactions = Interactions(last.level, last.page[1])]
    /\ UNCHANGED <<directives, hashes, stats, scanner, ngen, nops, fetch>>

SpecInteract == InitInteract /\ [][InteractOp]_vars

----------------------------------------------------------------------------
(* The mutation observer during a fetch *)

ObserverFailures == {"none", "read", "process", "disconnect"}

NextObserver ==
    \/ \E od \in BOOLEAN, env \in {"ok", "setup_error"} :
          FetchStart(HttpUrl, 0, 0, od, env)
    \/ \E result \in NavigationResults : Navigate(result)
    \/ \E request \in CallbackRequests : HandleRequest(request)
    \/ Interact("none", "plain")
    \/ \E oe \in CallbackObserved \cup ObservedLists, err \in ObserverFailures :
          ProcessDynamic(oe, err)
    \/ \E snapshot \in Snapshots : ScrapeStatic(snapshot)
    \/ Finalize(FALSE)

SpecObserver == Init /\ [][NextObserver]_vars

----------------------------------------------------------------------------
(* normalize_css, character by character: a text is a sequence of
   one-character strings *)

MaxCssLen == 3

IsCssSpace(c) == c \in {" ", "\n"}
IsCssSeparator(c) == c \in {"{", ":", ";", "}"}

\* the number of whitespace characters a text starts with
RECURSIVE LeadingSpaces(_)
LeadingSpaces(s) ==
    IF s # <<>> /\ IsCssSpace(Head(s)) THEN 1 + LeadingSpaces(Tail(s)) ELSE 0

RECURSIVE TrailingSpaces(_)
TrailingSpaces(s) ==
    IF s # <<>> /\ IsCssSpace(s[Len(s)])
    THEN 1 + TrailingSpaces(SubSeq(s, 1, Len(s) - 1)) ELSE 0

\* str.strip()
StripText(s) ==
    IF LeadingSpaces(s) = Len(s) THEN <<>>
    ELSE SubSeq(s, LeadingSpaces(s) + 1, Len(s) - TrailingSpaces(s))

ClosesAt(s, j) == j + 1 <= Len(s) /\ s[j] = "*" /\ s[j + 1] = "/"

\* re.sub(r"/\*.*?\*/", "", content, flags=re.DOTALL): one scan from the
\* left; an opener with a closer after it is cut out up to the first closer
RECURSIVE RemoveComments(_)
RemoveComments(s) ==
    IF s = <<>> THEN <<>>
    ELSE IF /\ Len(s) >= 4
            /\ s[1] = "/"
            /\ s[2] = "*"
            /\ \E j \in 3..Len(s) : ClosesAt(s, j)
    THEN LET j == CHOOSE j \in 3..Len(s) :
                     ClosesAt(s, j) /\ \A k \in 3..(j - 1) : ~ClosesAt(s, k)
         IN RemoveComments(SubSeq(s, j + 2, Len(s)))
    ELSE <<Head(s)>> \o RemoveComments(Tail(s))

\* re.sub(r"\s+", " ", ...)
RECURSIVE CollapseSpaces(_)
CollapseSpaces(s) ==
    IF s = <<>> THEN <<>>
    ELSE IF IsCssSpace(Head(s))
    THEN <<" ">> \o CollapseSpaces(SubSeq(s, LeadingSpaces(s) + 1, Len(s)))
    ELSE <<Head(s)>> \o CollapseSpaces(Tail(s))

\* re.sub(r"\s*([{:;}])\s*", r"\1", content)
RECURSIVE TightenSeparators(_)
TightenSeparators(s) ==
    IF s = <<>> THEN <<>>
    ELSE LET k == LeadingSpaces(s)
         IN IF k < Len(s) /\ IsCssSeparator(s[k + 1])
            THEN LET rest == SubSeq(s, k + 2, Len(s))
                 IN <<s[k + 1]>> \o
                    TightenSeparators(SubSeq(rest, LeadingSpaces(rest) + 1, Len(rest)))
            ELSE <<Head(s)>> \o TightenSeparators(Tail(s))

Positions(s, c) == {i \in DOMAIN s : s[i] = c}
Least(S) == CHOOSE i \in S : \A j \in S : i <= j
Greatest(S) == CHOOSE i \in S : \A j \in S : j <= i

\* str.split(";")
RECURSIVE SplitProps(_)
SplitProps(s) ==
    IF Positions(s, ";") = {} THEN <<s>>
    ELSE LET i == Least(Positions(s, ";"))
         IN <<SubSeq(s, 1, i - 1)>> \o SplitProps(SubSeq(s, i + 1, Len(s)))

IsProp(prop) == StripText(prop) # <<>>

\* [prop.strip() for prop in declarations.split(";") if prop.strip()]
Props(declarations) ==
    LET parts == SelectSeq(SplitProps(declarations), IsProp)
    IN [i \in DOMAIN parts |-> StripText(parts[i])]

\* ";".join(props)
RECURSIVE JoinProps(_)
JoinProps(props) ==
    IF props = <<>> THEN <<>>
    ELSE IF Len(props) = 1 THEN props[1]
    ELSE props[1] \o <<";">> \o JoinProps(Tail(props))

\* normalize_css
NormalizeCss(content) ==
    IF content = <<>> THEN <<>>
    ELSE LET text == TightenSeparators(
                         CollapseSpaces(StripText(RemoveComments(content))))
         IN IF Positions(text, "{") # {} /\ Positions(text, "}") # {}
            THEN LET i == Least(Positions(text, "{"))
                     selector == SubSeq(text, 1, i - 1)
                     after == SubSeq(text, i + 1, Len(text))
                     declarations ==
                         IF Positions(after, "}") = {} THEN after
                         ELSE SubSeq(after, 1, Greatest(Positions(after, "}")) - 1)
                 IN selector \o <<"{">> \o JoinProps(Props(declarations)) \o <<"}">>
            ELSE LET normalized == JoinProps(Props(text))
                 IN IF normalized # <<>> /\ normalized[Len(normalized)] # ";"
                    THEN Append(normalized, ";")
                    ELSE normalized

\* _process_observed_elements on style texts: the style hashes a fetch adds
\* for the texts it observes, the digest of a text written as the text itself
RECURSIVE StyleHashes(_, _)
StyleHashes(bucket, texts) ==
    IF texts = <<>> THEN bucket
    ELSE LET normalized == NormalizeCss(Head(texts))
         IN StyleHashes(IF normalized # <<>> /\ normalized \notin Range(bucket)
                        THEN Append(bucket, normalized) ELSE bucket,
                        Tail(texts))

\* the ways two style texts may differ: a comment put in (away from "/" and
\* "*", so that it neither splits a comment mark nor sits in a comment of
\* these texts), a whitespace character put in next to whitespace, next to
\* one of { : ; } or at an end, a ";" put in at the end of the declaration
\* list
InsertAt(s, i, t) == SubSeq(s, 1, i) \o t \o SubSeq(s, i + 1, Len(s))

CommentText == <<"/", "*", "a", " ", "*", "/">>

SpaceSlots(s) ==
    {i \in 0..Len(s) :
        \/ i = 0
        \/ i = Len(s)
        \/ IsCssSpace(s[i]) \/ IsCssSeparator(s[i])
        \/ IsCssSpace(s[i + 1]) \/ IsCssSeparator(s[i + 1])}

CommentSlots(s) ==
    {i \in 0..Len(s) :
        /\ i > 0 => s[i] \notin {"/", "*"}
        /\ i < Len(s) => s[i + 1] \notin {"/", "*"}}

TrailingSemicolon(s) ==
    IF Positions(s, "{") = {} /\ Positions(s, "}") = {}
    THEN {Append(s, ";")}
    ELSE IF /\ Positions(s, "{") # {}
            /\ Positions(s, "}") # {}
            /\ Least(Positions(s, "{")) < Greatest(Positions(s, "}"))
    THEN {InsertAt(s, Greatest(Positions(s, "}")) - 1, <<";">>)}
    ELSE {}

Variants(s) ==
    {InsertAt(s, i, CommentText) : i \in CommentSlots(s)}
    \cup {InsertAt(s, i, <<c>>) : i \in SpaceSlots(s), c \in {" ", "\n"}}
    \cup TrailingSemicolon(s)

CssAlphabet == {"a", " ", ":", ";", "{", "}"}

RECURSIVE TextsUpTo(_)
TextsUpTo(n) ==
    IF n = 0 THEN {<<>>}
    ELSE LET shorter == TextsUpTo(n - 1)
         IN shorter \cup {Append(t, c) : t \in shorter, c \in CssAlphabet}

\* every text of up to MaxCssLen characters, and longer ones: a declaration
\* list, a rule block, texts with comments
CssTexts ==
    TextsUpTo(MaxCssLen)
    \cup { <<"a", ":", "b", ";", "c", ":", "d">>,
           <<"p", "{", "a", ":", "b", ";", "c", ":", "d", "}">>,
           <<"a", "/", "*", "x", "*", "/", ":", "b">>,
           <<"/", "*", "*", "/">>,
           <<"/", "/", "*", "*", "/", "*", "*", "/">> }

InitCss ==
    /\ directives = <<>>
    /\ hashes = InitHashes
    /\ stats = InitStats
    /\ scanner = FALSE
    /\ ngen = 0
    /\ nops = 0
    /\ fetch = NoFetch
    /\ \E text \in CssTexts : \E variant \in Variants(text) :
          last = [NoLast EXCEPT !.op = "style_texts",
                                !.css = <<[text |-> text, variant |-> variant]>>]

NormalizeCssOp ==
    /\ last.op = "style_texts"
    /\ LET text == last.css[1].text
           variant == last.css[1].variant
       IN last' = [last EXCEPT
                     !.op = "normalize_css",
                     !.css = <<[text |-> text,
                                variant |-> variant,
                                normalized |-> NormalizeCss(text),
                                normalized_variant |-> NormalizeCss(variant),
                                again |-> NormalizeCss(NormalizeCss(text)),
                                added |-> StyleHashes(<<>>, <<text, variant>>)]>>]
    /\ UNCHANGED <<directives, hashes, stats, scanner, ngen, nops, fetch>>

SpecCss == InitCss /\ [][NormalizeCssOp]_vars

----------------------------------------------------------------------------
(* Properties *)

NoRepeatedToken(d) == \A i \in DOMAIN d : NoRepeat(d[i].sources)

\* C1: two generate_csp calls in succession return the same string (the
\* second call does not append the Hash Bucket tokens a second time).
C1_SerializationIdempotent ==
    [][(last.op = "generate_csp" /\ last'.op = "generate_csp")
          => last'.csp = last.csp]_vars

\* C2: after any sequence of update_directive and add_external_resource calls
\* from the empty Policy State, no source list holds the same token twice.
C2_NoDuplication == NoRepeatedToken(directives)

\* C3: after seeding, local scanning and one generate_csp call, no clause of
\* the returned string and no source list of the Directive Map holds the same
\* token twice.
C3_NoRepeatAfterGenerate ==
    (last.op = "generate_csp" /\ ngen = 1)
        => /\ NoRepeatedToken(directives)
           /\ NoRepeatedToken(ParseCsp(last.csp))

\* C4: the string generate_csp returns holds every token of each of the three
\* Hash Buckets among the sources of the directive of the bucket's name.
C4_AllBucketsMerged ==
    last.op = "generate_csp"
        => \A b \in HashBuckets :
              Range(hashes[b]) \subseteq Range(Get(ParseCsp(last.csp), b))

\* The structured diff of two parsed maps is empty
DiffEmpty(existing, generated) ==
    /\ MissingDirectives(existing, generated) = {}
    /\ ExtraDirectives(existing, generated) = {}
    /\ \A d \in Keys(existing) \cup Keys(generated) :
          /\ Missing(existing, generated, d) = {}
          /\ Extra(existing, generated, d) = {}

\* a token that is one word: not empty, no whitespace, no ";"
IsWord(tok) == Len(tok) = 1 /\ tok[1] \notin {SP, SEMI}
WellFormed(d) == \A i \in DOMAIN d : \A tok \in Range(d[i].sources) : IsWord(tok)

SameSourceSets(parsed, d, names) ==
    /\ Keys(parsed) = names
    /\ \A k \in names : Range(Get(parsed, k)) = Range(Get(d, k))

\* C5 (as claimed): parsing the string generate_csp returns gives exactly the
\* directive names of the Directive Map, directives with an empty source list
\* included, each with the same set of tokens.
C5_RoundTripAllDirectives ==
    last.op = "generate_csp"
        => SameSourceSets(ParseCsp(last.csp), directives, Keys(directives))

\* C5 (amended): when every source token is one word, parsing the string
\* generate_csp returns gives exactly the directives of the Directive Map whose
\* source list is not empty, each with the same set of tokens.
C5_RoundTripNonEmptyDirectives ==
    (last.op = "generate_csp" /\ WellFormed(directives))
        => SameSourceSets(ParseCsp(last.csp), directives,
                          {k \in Keys(directives) : Get(directives, k) # <<>>})

C5_Witness ==
    /\ last.op = "generate_csp"
    /\ WellFormed(directives)
    /\ \E i \in DOMAIN directives : directives[i].sources = <<>>
    /\ \E i \in DOMAIN directives : Len(directives[i].sources) >= 2
    /\ Len(CspParts(directives)) >= 2

\* C6: validating a stored text that equals the serialization of the
\* discovered state returns True without raising, and the diff of its parsed
\* map against itself is empty.
C6_ValidateSameText ==
    (last.op = "validate_csp" /\ last.readable /\ last.stored = last.csp)
        => /\ last.ok
           /\ ~last.raised
           /\ DiffEmpty(ParseCsp(last.stored), ParseCsp(last.stored))

C6_Witness ==
    /\ last.op = "validate_csp"
    /\ last.readable
    /\ last.stored = last.csp
    /\ last.stored # <<>>
    /\ last.ok

\* C7 (as claimed): validate_csp returns True exactly when the structured diff
\* of the two parsed maps is empty.
C7_ValidIffDiffEmpty ==
    (last.op = "validate_csp" /\ last.readable)
        => (last.ok <=> DiffEmpty(ParseCsp(last.existing), ParseCsp(last.csp)))

\* C7 (amended): validate_csp returns True exactly when the stripped stored
\* text equals the generated text, and then the structured diff is empty (an
\* empty diff does not make the result True).
C7_ValidIffSameText ==
    (last.op = "validate_csp" /\ last.readable)
        => /\ last.ok <=> (Strip(last.stored) = last.csp)
           /\ last.ok => DiffEmpty(ParseCsp(last.existing), ParseCsp(last.csp))

C7_Witness ==
    /\ last.op = "validate_csp"
    /\ last.readable
    /\ ~last.ok
    /\ ~last.raised
    /\ DiffEmpty(ParseCsp(last.existing), ParseCsp(last.csp))

\* C8: when the stored text and the generated text differ, validate_csp
\* returns False and does not raise.
C8_MismatchIsAValue ==
    (last.op = "validate_csp" /\ last.readable /\ last.existing # last.csp)
        => (~last.ok /\ ~last.raised)

BucketTokens == UNION {Range(hashes[b]) : b \in HashBuckets}
HashSuffix(old, new) ==
    /\ IsPrefix(old, new)
    /\ Range(SubSeq(new, Len(old) + 1, Len(new))) \subseteq BucketTokens

\* C9: generate_csp installs the baseline only when the Directive Map is
\* empty; on a non-empty map it keeps every directive and its tokens where
\* they are, appends only Hash Bucket tokens, and adds no baseline directive.
C9_DefaultsOnlyWhenEmpty ==
    [][last'.op = "generate_csp" =>
         IF directives = <<>>
         THEN /\ Len(directives') = Len(default_directives)
              /\ \A i \in DOMAIN default_directives :
                    /\ directives'[i].name = default_directives[i].name
                    /\ HashSuffix(default_directives[i].sources, directives'[i].sources)
         ELSE /\ Len(directives') >= Len(directives)
              /\ \A i \in DOMAIN directives :
                    /\ directives'[i].name = directives[i].name
                    /\ HashSuffix(directives[i].sources, directives'[i].sources)
              /\ \A i \in DOMAIN directives' \ DOMAIN directives :
                    /\ directives'[i].sources # <<>>
                    /\ HashSuffix(<<>>, directives'[i].sources)
      ]_vars

C9_Witness ==
    /\ last.op = "generate_csp"
    /\ ~Has(directives, "default-src")
    /\ hashes["script-src"] # <<>>
    /\ Get(directives, "img-src") # <<>>
    /\ Len(Get(directives, "script-src")) >= 2

NotEmptyToken(tok) == tok # EMPTY

\* C10: update_directive with a non-empty list replaces the list of the named
\* directive by the given sources, in order, without the empty strings, and
\* changes no other directive, Hash Bucket or stat; with an empty list it
\* changes nothing.
C10_UpdateReplaces ==
    [][last'.op = "update_directive" =>
         LET name == last'.directive
             sources == last'.sources
         IN /\ hashes' = hashes
            /\ stats' = stats
            /\ sources = <<>> => directives' = directives
            /\ sources # <<>> =>
                  /\ Has(directives', name)
                  /\ Get(directives', name) = SelectSeq(sources, NotEmptyToken)
                  /\ Keys(directives') = Keys(directives) \cup {name}
                  /\ \A k \in Keys(directives) \ {name} :
                        Get(directives', k) = Get(directives, k)
      ]_vars

C10_Witness ==
    /\ last.op = "update_directive"
    /\ last.sources = <<EMPTY, U1, H1>>
    /\ Get(directives, last.directive) = <<U1, H1>>
    /\ \E k \in Keys(directives) \ {last.directive} : Get(directives, k) # <<>>
    /\ hashes["script-src"] # <<>>

----------------------------------------------------------------------------
(* add_external_resource *)

\* the kind-to-directive table as the specification states it
KindTable ==
    [script |-> "script-src", stylesheet |-> "style-src", image |-> "img-src",
     font |-> "font-src", media |-> "media-src", fetch |-> "connect-src",
     websocket |-> "connect-src"]

\* the declared Discovery Stats counter of each kind
KindCounter ==
    [script |-> "external_scripts", stylesheet |-> "external_styles",
     image |-> "external_images", font |-> "external_fonts",
     media |-> "external_media", fetch |-> "external_connections",
     websocket |-> "external_connections"]

IsAddStep == last'.op = "add_external_resource"

\* C11: add_external_resource(url, kind) with a kind of the table appends url
\* to the directive the table names iff url was not in it, and leaves every
\* other directive as it was (neither changed, created nor removed); with any
\* other kind it leaves directives, hash buckets and stats unchanged and
\* does not raise.
C11_KindTable ==
    [][IsAddStep =>
        LET kind == last'.directive
            url == last'.sources[1]
        IN IF kind \in DOMAIN KindTable
           THEN LET dir == KindTable[kind]
                    before == Get(directives, dir)
                IN /\ Get(directives', dir) =
                        IF url \in Range(before) THEN before
                        ELSE Append(before, url)
                   /\ \A n \in (Keys(directives) \cup Keys(directives')) \ {dir} :
                        /\ Has(directives, n) <=> Has(directives', n)
                        /\ Get(directives, n) = Get(directives', n)
                   /\ ~last'.raised
           ELSE /\ directives' = directives
                /\ hashes' = hashes
                /\ stats' = stats
                /\ ~last'.raised]_vars

\* a websocket URL was added after a fetch URL: both are in connect-src, next
\* to a directive of another kind
C11_Witness ==
    /\ last.op = "add_external_resource"
    /\ last.directive = "websocket"
    /\ Get(directives, "connect-src") = <<U1, U2>>
    /\ Get(directives, "style-src") = <<U2>>

\* C12: when add_external_resource newly appends a url of a known kind, the
\* declared counter of that kind (external_styles for stylesheet) goes up by
\* one and no other stats key is changed or created; when the url was already
\* present, stats are unchanged.
C12_DeclaredCounter ==
    [][(IsAddStep /\ last'.directive \in DOMAIN KindCounter) =>
        LET kind == last'.directive
            url == last'.sources[1]
            key == KindCounter[kind]
        IN IF url \in Range(Get(directives, KindTable[kind]))
           THEN stats' = stats
           ELSE /\ DOMAIN stats' = DOMAIN stats
                /\ stats' = [stats EXCEPT ![key] = @ + 1]]_vars

----------------------------------------------------------------------------
(* The wire format *)

RECURSIVE Concat(_)
Concat(texts) == IF texts = <<>> THEN <<>> ELSE Head(texts) \o Concat(Tail(texts))

\* the directives that have at least one source, in insertion order
Emitted(d) == SelectSeq(d, LAMBDA e : e.sources # <<>>)

\* a clause: the name, then every source preceded by one space
WireClause(e) ==
    <<e.name>> \o Concat([j \in DOMAIN e.sources |-> <<SP>> \o e.sources[j]])

\* every clause is closed by ";", and followed by one space unless it is the
\* last one
WireFormat(d) ==
    LET em == Emitted(d)
    IN Concat([i \in DOMAIN em |->
                 WireClause(em[i]) \o <<SEMI>>
                 \o (IF i < Len(em) THEN <<SP>> ELSE <<>>)])

\* C13: the string returned by generate_csp is the wire format of the
\* Directive Map it leaves: one clause "name source ... source" per directive
\* with a non-empty list, in insertion order, clauses separated by "; ", a
\* final ";" iff a clause was emitted, and the empty string when every
\* directive has an empty list.
C13_WireFormat ==
    last.op = "generate_csp" =>
        /\ last.csp = WireFormat(directives)
        /\ (last.csp # <<>> => last.csp[Len(last.csp)] = SEMI)
        /\ (last.csp # <<>> <=> Emitted(directives) # <<>>)
        /\ ((\A i \in DOMAIN directives : directives[i].sources = <<>>)
               => last.csp = <<>>)

\* two clauses, the second with two sources, and a directive with an empty
\* list between them that is not emitted
C13_Witness ==
    /\ last.op = "generate_csp"
    /\ Keys(directives) = {"script-src", "style-src", "img-src"}
    /\ Get(directives, "style-src") = <<>>
    /\ last.csp = <<"script-src", SP, "'sha256-1'", SEMI, SP,
                    "img-src", SP, "https://a/x", SP, "'sha256-1'", SEMI>>

----------------------------------------------------------------------------
(* fetch_remote_site *)

FetchDone == fetch.pc = "done"
FetchReturned(success, header) ==
    /\ fetch.outcome = "returned"
    /\ fetch.success = success
    /\ fetch.header = header

\* the url starts with "http://" or with "https://"
HasHttpScheme(url) ==
    \/ IsPrefix(<<"h", "t", "t", "p", ":", "/", "/">>, url)
    \/ IsPrefix(<<"h", "t", "t", "p", "s", ":", "/", "/">>, url)

\* positions of the trace holding an event of kind e
At(e) == {i \in DOMAIN fetch.trace : fetch.trace[i].e = e}

\* some page.goto returned a response (its headers may have failed to load)
SomeResponse ==
    \E i \in DOMAIN fetch.trace :
        \/ fetch.trace[i].e = "response"
        \/ (fetch.trace[i].e = "fail" /\ fetch.trace[i].mode = "headers_error")

\* every attempt 0..retries was made and failed
AllAttemptsFailed ==
    /\ fetch.retries >= 0
    /\ \A a \in 0..fetch.retries :
          \E i \in At("fail") : fetch.trace[i].n = a

\* C14: for every retry budget, negative ones included, a call with a valid
\* URL returns success=True only if some navigation attempt returned a
\* response, and returns (False, None), without raising, when all the allowed
\* attempts failed.
C14_FetchOutcome ==
    (FetchDone /\ HasHttpScheme(fetch.url)) =>
        /\ (fetch.outcome = "returned" /\ fetch.success) => SomeResponse
        /\ AllAttemptsFailed => FetchReturned(FALSE, None)

RECURSIVE Pow2(_)
Pow2(k) == IF k = 0 THEN 1 ELSE 2 * Pow2(k - 1)

\* C15: at most retries+1 navigations are issued, numbered 0, 1, ... in
\* order; a failed attempt k < retries, of either failure mode, is followed
\* by a wait of exactly 2^k seconds and then by attempt k+1; there is no
\* other wait: none after the failure of attempt number retries, none
\* after a response.
C15_RetrySchedule ==
    LET t == fetch.trace
    IN /\ Cardinality(At("goto")) <= fetch.retries + 1
       /\ \A i \in At("goto") :
            t[i].n = Cardinality({j \in At("goto") : j < i})
       /\ \A i \in At("fail") :
            /\ i > 1 /\ t[i - 1].e = "goto" /\ t[i - 1].n = t[i].n
            /\ IF t[i].n < fetch.retries
               THEN /\ i + 1 <= Len(t)
                    /\ t[i + 1].e = "sleep"
                    /\ t[i + 1].n = Pow2(t[i].n)
                    /\ (fetch.pc = "navigating" \/ i + 2 <= Len(t))
                    /\ (i + 2 <= Len(t) =>
                          t[i + 2].e = "goto" /\ t[i + 2].n = t[i].n + 1)
               ELSE i = Len(t)
       /\ \A i \in At("sleep") :
            i > 1 /\ t[i - 1].e = "fail" /\ t[i - 1].n < fetch.retries
       /\ \A i \in At("response") : i = Len(t)

\* retries = 3: an exception, a missing response and two more failures; the
\* waits are 1, 2 and 4 seconds and nothing follows the last failure
C15_Witness ==
    /\ FetchDone
    /\ fetch.retries = 3
    /\ Len(fetch.trace) = 11
    /\ fetch.trace[2].mode = "exception"
    /\ fetch.trace[5].mode = "no_response"
    /\ fetch.trace[3].n = 1 /\ fetch.trace[6].n = 2 /\ fetch.trace[9].n = 4
    /\ fetch.trace[11].e = "fail"

\* C16: when the first k attempts fail and attempt k+1 gets a response
\* (k <= retries), the call returns success=True, exactly k attempt failures
\* were logged and no navigation follows the successful one.
C16_RetryThenSuccess ==
    \A i \in At("response") :
        FetchDone =>
            /\ fetch.outcome = "returned" /\ fetch.success
            /\ Cardinality(At("fail")) = fetch.trace[i].n
            /\ \A j \in At("goto") : j < i

\* the browser session is closed: browser.close() was awaited, or the
\* async with block of async_playwright() was left, which stops Playwright
\* and with it the browser it launched
SessionClosed == fetch.browser = "closed" \/ fetch.playwright = "exited"

\* C17: whenever a call that launched a browser has returned or raised, the
\* browser session is closed.
C17_Teardown ==
    (FetchDone /\ fetch.browser # "none") => SessionClosed

\* an exception after a successful navigation: browser.close() was not
\* awaited, the session ended with the async with block
C17_Witness ==
    /\ FetchDone
    /\ fetch.outcome = "raised"
    /\ At("response") # {}
    /\ fetch.browser = "open"
    /\ fetch.playwright = "exited"

\* C18: once an attempt has obtained a response, the call returns
\* (True, header of that response) whatever fails in a later stage, and does
\* not raise.
C18_GracefulDegradation ==
    \A i \in At("response") :
        FetchDone =>
            FetchReturned(TRUE,
                IF "content-security-policy" \in DOMAIN fetch.trace[i].headers
                THEN Some(fetch.trace[i].headers["content-security-policy"])
                ELSE None)

C20_SitePolicyHeader ==
    (FetchDone /\ fetch.outcome = "returned") =>
        IF fetch.success
        THEN \A i \in At("response") :
                /\ i = Len(fetch.trace)
                /\ fetch.header =
                     IF "content-security-policy" \in DOMAIN fetch.trace[i].headers
                     THEN Some(fetch.trace[i].headers["content-security-policy"])
                     ELSE None
        ELSE fetch.header = None

\* the headers of the second attempt failed to load, the third attempt got
\* a response with another policy, which is the one returned
C20_Witness ==
    /\ FetchDone
    /\ FetchReturned(TRUE, Some("default-src 'self'"))
    /\ \E i \in At("fail") : fetch.trace[i].mode = "headers_error"
    /\ Cardinality(At("fail")) = 2

----------------------------------------------------------------------------
(* LocalScanner counters and failures *)

IsScanFileStep == last'.op = "scan_html_file"
FreshCounters == stats = InitStats /\ hashes = InitHashes
\* 1 when the document has neither an inline <script> nor a <style> element
NoInlineDelta(f) ==
    IF Len(f.inline_scripts) = 0 /\ Len(f.inline_styles) = 0 THEN 1 ELSE 0

\* what every successful scan does to the two file counters
FileCounters(f) ==
    /\ stats'["files_processed"] = stats["files_processed"] + 1
    /\ stats'["files_with_no_inline_scripts"] =
           stats["files_with_no_inline_scripts"] + NoInlineDelta(f)

\* a file without inline script and style, on fresh counters: counter 1, no hash
NoInlineExample(f) ==
    (FreshCounters /\ NoInlineDelta(f) = 1) =>
        /\ stats'["files_with_no_inline_scripts"] = 1
        /\ hashes' = InitHashes
        /\ stats'["unique_script_hashes"] = 0
        /\ stats'["unique_style_hashes"] = 0

OneScriptHash ==
    /\ stats'["unique_script_hashes"] = 1
    /\ Len(hashes'["script-src"]) = 1
    /\ stats'["files_with_no_inline_scripts"] = 0

\* C21 as stated: a scan_html_file call that returns True adds 1 to
\* files_processed, adds 1 to the no-inline counter iff the document has no
\* inline script and no style element; on fresh counters a file with one
\* inline script gives one unique script hash and no-inline counter 0, a file
\* with no script/style gives no-inline counter 1 and no hash.
C21_ScanCounters ==
    [][(IsScanFileStep /\ last'.ok) =>
        LET f == last'.files[1]
        IN /\ FileCounters(f)
           /\ NoInlineExample(f)
           /\ (FreshCounters /\ Len(f.inline_scripts) = 1 /\ f.inline_styles = <<>>)
                 => OneScriptHash]_vars

\* C21 amended: the same, the one-script example holding for an inline script
\* whose content is not blank; a blank inline script gives no hash, and still
\* no-inline counter 0.
C21_ScanCountersNonBlank ==
    [][(IsScanFileStep /\ last'.ok) =>
        LET f == last'.files[1]
        IN /\ FileCounters(f)
           /\ NoInlineExample(f)
           /\ (FreshCounters /\ Len(f.inline_scripts) = 1 /\ f.inline_styles = <<>>)
                 => IF f.inline_scripts[1] \notin {"", " "}
                    THEN OneScriptHash
                    ELSE /\ stats'["unique_script_hashes"] = 0
                         /\ hashes'["script-src"] = <<>>
                         /\ stats'["files_with_no_inline_scripts"] = 0]_vars

\* <script> </script> was scanned: processed, not counted as without inline
\* content, no hash
C21_Witness ==
    /\ last.op = "scan_html_file"
    /\ last.ok
    /\ last.files = <<FileBlankScript>>
    /\ stats["files_processed"] = 1
    /\ stats["files_with_no_inline_scripts"] = 0
    /\ stats["unique_script_hashes"] = 0

\* the files of a tree whose scan returns True
RECURSIVE CountGood(_)
CountGood(files) ==
    IF files = <<>> THEN 0
    ELSE (IF Head(files).readable /\ Head(files).non_tag = "none" THEN 1 ELSE 0)
         + CountGood(Tail(files))

----------------------------------------------------------------------------
(* validate_csp on an unreadable stored policy *)

\* C23: when the stored policy file cannot be opened or read, validate_csp
\* returns False, does not raise, constructs no scanner and scans nothing,
\* does not serialize, and leaves directives, hash buckets and stats
\* unchanged.
C23_UnreadableStored ==
    [][(last'.op = "validate_csp" /\ ~last'.readable) =>
          /\ ~last'.ok
          /\ ~last'.raised
          /\ directives' = directives
          /\ hashes' = hashes
          /\ stats' = stats
          /\ ngen' = ngen]_vars

\* the stored file was unreadable: the seeded directive is all the Policy
\* State has, no scanner key was created
C23_Witness ==
    /\ last.op = "validate_csp"
    /\ ~last.readable
    /\ ~last.ok
    /\ directives = <<[name |-> "img-src", sources |-> <<H1>>]>>
    /\ hashes = InitHashes

----------------------------------------------------------------------------
(* The structured diff *)

\* a counter of the report; a counter the table does not have counts nothing
Counted(report, d, key) ==
    IF d \in DOMAIN report.metrics /\ key \in DOMAIN report.metrics[d]
    THEN report.metrics[d][key]
    ELSE 0

NumHashes(tokens) == Cardinality({x \in tokens : StartsWithSha256(x)})
NumLinks(tokens) == Cardinality({x \in tokens : ~StartsWithSha256(x)})

\* C24: when the stored and the discovered policy differ, the diff is worked
\* out without raising; for each directive of either parsed map the missing
\* set is discovered minus stored and the extra set stored minus discovered;
\* directives only in the discovered map are the missing directives, those
\* only in the stored map the extra ones; every differing token is counted,
\* as a hash difference iff it starts with 'sha256- and as a link difference
\* otherwise; a discovered hash the stored policy lacks is reported missing
\* and the result is False.
C24_StructuredDiff ==
    (last.op = "validate_csp" /\ last.readable /\ ~last.ok) =>
        LET stored == ParseCsp(last.existing)
            discovered == ParseCsp(last.csp)
            report == DiffReport(stored, discovered)
        IN /\ ~last.raised
           /\ report.missing_directives = Keys(discovered) \ Keys(stored)
           /\ report.extra_directives = Keys(stored) \ Keys(discovered)
           /\ \A d \in Keys(stored) \cup Keys(discovered) :
                LET missing == Range(Get(discovered, d)) \ Range(Get(stored, d))
                    extra == Range(Get(stored, d)) \ Range(Get(discovered, d))
                IN /\ report.missing[d] = missing
                   /\ report.extra[d] = extra
                   /\ Counted(report, d, "missing_hashes") = NumHashes(missing)
                   /\ Counted(report, d, "missing_links") = NumLinks(missing)
                   /\ Counted(report, d, "extra_hashes") = NumHashes(extra)
                   /\ Counted(report, d, "extra_links") = NumLinks(extra)

----------------------------------------------------------------------------
(* _parse_csp *)

\* the clauses of a text: what lies between one ";" (or the start) and the
\* next ";" (or the end)
Cuts(text) == {0, Len(text) + 1} \cup {i \in DOMAIN text : text[i] = SEMI}
ClauseFrom(text, i) ==
    LET j == CHOOSE j \in Cuts(text) :
                 j > i /\ \A k \in Cuts(text) : k > i => j <= k
    IN SubSeq(text, i + 1, j - 1)
\* the words of a clause, in order
ClauseWords(clause) == SelectSeq(clause, LAMBDA a : a # SP)
\* the cuts that open a clause with at least one word
Openers(text) ==
    {i \in Cuts(text) : i <= Len(text) /\ ClauseWords(ClauseFrom(text, i)) # <<>>}
NameAt(text, i) == ClauseWords(ClauseFrom(text, i))[1]
SourcesAt(text, i) ==
    LET w == Tail(ClauseWords(ClauseFrom(text, i)))
    IN [k \in DOMAIN w |-> <<w[k]>>]

\* C25: _parse_csp returns, for every text, a directive map without raising:
\* its keys are the first words of the clauses that are not blank, each once;
\* a key maps to the remaining words of the last clause that starts with it
\* (none for a name-only clause); blank clauses give nothing.
C25_ParseTotal ==
    last.op = "_parse_csp" =>
        LET text == last.stored
            parsed == last.parsed
        IN /\ ~last.raised
           /\ \A i, j \in DOMAIN parsed : i # j => parsed[i].name # parsed[j].name
           /\ Keys(parsed) = {NameAt(text, i) : i \in Openers(text)}
           /\ \A i \in Openers(text) :
                (\A j \in Openers(text) : NameAt(text, j) = NameAt(text, i) => j <= i)
                    => Get(parsed, NameAt(text, i)) = SourcesAt(text, i)

\* "a b;a": the second clause, name-only, replaced the sources of the first
C25_Witness ==
    /\ last.op = "_parse_csp"
    /\ last.stored = <<"a", SP, "b", SEMI, "a">>
    /\ last.parsed = <<[name |-> "a", sources |-> <<>>]>>

----------------------------------------------------------------------------
(* lint_directives *)

Occurrences(seq, x) == Cardinality({i \in DOMAIN seq : seq[i] = x})
C26Unsafe == {<<"*">>, <<"data:">>, <<"'unsafe-inline'">>}
UnsafeOccurrences ==
    {<<i, k>> \in (DOMAIN directives) \X (1..3) :
        k \in DOMAIN directives[i].sources /\ directives[i].sources[k] \in C26Unsafe}
LintRight ==
    /\ Len(last.warnings) = Cardinality(UnsafeOccurrences)
    /\ \A i \in DOMAIN directives : \A t \in C26Unsafe :
         Occurrences(last.warnings,
                     <<"Unsafe source '">> \o t \o <<"' found in ", directives[i].name>>)
             = Occurrences(directives[i].sources, t)
    /\ (UnsafeOccurrences = {} => last.warnings = <<>>)

\* C26: a call of lint_directives returns one warning for each occurrence of
\* *, data: or 'unsafe-inline' in the sources of any directive, naming the
\* directive and the source, none when there is no such occurrence, and
\* changes neither the directives nor the hash buckets nor the stats.
C26_Lint ==
    [][(last'.op = "lint_directives" /\ nops' # nops) =>
           /\ UNCHANGED <<directives, hashes, stats>>
           /\ LintRight']_vars

\* a custom directive holding * twice, next to a filled hash bucket: two
\* warnings
C26_Witness ==
    /\ last.op = "lint_directives"
    /\ Has(directives, "custom-directive")
    /\ Get(directives, "custom-directive") = <<STAR, STAR>>
    /\ hashes["script-src"] # <<>>
    /\ Len(last.warnings) = 2

----------------------------------------------------------------------------
(* Discovery Stats and Hash Buckets over the life of a Policy State *)

NonNegative(st) == \A k \in DOMAIN st : st[k] \in Nat

\* C27: in every step of update_directive, add_external_resource,
\* scan_html_file, scan_directory, fetch_remote_site, generate_csp,
\* lint_directives and validate_csp, every counter of the Discovery Stats is
\* a non-negative integer before and after, is still there after, and is not
\* smaller after than before.
C27_StatsMonotone ==
    [][/\ NonNegative(stats)
       /\ NonNegative(stats')
       /\ \A k \in DOMAIN stats :
            k \in DOMAIN stats' /\ stats'[k] >= stats[k]]_vars

\* counters raised by a seed, a local scan and a remote fetch, then a
\* validation on the same Policy State
C27_Witness ==
    /\ last.op = "validate_csp"
    /\ fetch.pc = "done"
    /\ stats["unique_script_hashes"] >= 1
    /\ stats["unique_style_hashes"] >= 1
    /\ stats["files_processed"] >= 1
    /\ \E k \in DOMAIN stats : k \notin StatKeys /\ stats[k] >= 1

\* C28: in every step of a scan, a remote fetch, a serialization or a
\* validation, each Hash Bucket keeps the tokens it had, and no bucket holds
\* a token twice or holds the empty string, before or after.
BucketsClean(hs) ==
    \A b \in DOMAIN hs : NoRepeat(hs[b]) /\ EMPTY \notin Range(hs[b])
C28_BucketsGrow ==
    [][/\ BucketsClean(hashes)
       /\ BucketsClean(hashes')
       /\ \A b \in DOMAIN hashes :
            b \in DOMAIN hashes' /\ Range(hashes[b]) \subseteq Range(hashes'[b])]_vars

\* a local scan put the hash of c1 in the script bucket; a later remote fetch
\* met the same content and a new one, and the bucket holds each once
C28_Witness ==
    /\ fetch.pc = "done"
    /\ fetch.success
    /\ last.op = "scan_html_file"
    /\ hashes["script-src"] = <<H1, H2>>
    /\ hashes["style-src-attr"] # <<>>

----------------------------------------------------------------------------
(* Request callbacks between the steps of the main flow *)

Pairs(ds) ==
    {<<ds[i].name, ds[i].sources[k]>> : <<i, k>> \in
        {ik \in (DOMAIN ds) \X (1..(MaxOps + 2)) : ik[2] \in DOMAIN ds[ik[1]].sources}}
RECURSIVE SumLens(_)
SumLens(ds) == IF ds = <<>> THEN 0 ELSE Len(Head(ds).sources) + SumLens(Tail(ds))
RECURSIVE SumOf(_, _)
SumOf(st, keys) ==
    IF keys = {} THEN 0
    ELSE LET k == CHOOSE k \in keys : TRUE IN st[k] + SumOf(st, keys \ {k})
\* the counters of external resources: all but the file and hash counters
ExternalKeys(st) ==
    DOMAIN st \ {"files_processed", "files_with_no_inline_scripts",
                 "unique_script_hashes", "unique_style_hashes"}
OneCounterUp(st, st2) ==
    \E k \in DOMAIN st2 :
        /\ st2[k] = (IF k \in DOMAIN st THEN st[k] ELSE 0) + 1
        /\ \A j \in DOMAIN st2 \ {k} : j \in DOMAIN st /\ st2[j] = st[j]
        /\ DOMAIN st \subseteq DOMAIN st2

\* C29: in a remote fetch whose request callbacks run between any two steps
\* of the main flow, in any order and with repeated URLs, after every step no
\* directive holds a URL twice and no Hash Bucket holds a token twice; a
\* callback adds at most one (directive, URL) pair, raises exactly one
\* counter by one when it adds a pair and none when the pair was there; so
\* the external-resource counters add up to the number of pairs.
C29_AtomicCallbacks ==
    [][fetch'.pc # "idle" =>
         /\ \A i \in DOMAIN directives' : NoRepeat(directives'[i].sources)
         /\ \A b \in DOMAIN hashes' : NoRepeat(hashes'[b])
         /\ nops' # nops =>
              LET new == Pairs(directives') \ Pairs(directives)
              IN /\ Cardinality(new) <= 1
                 /\ Pairs(directives) \subseteq Pairs(directives')
                 /\ hashes' = hashes
                 /\ IF new = {} THEN stats' = stats
                    ELSE OneCounterUp(stats, stats')
         /\ SumOf(stats', ExternalKeys(stats')) = SumLens(directives')]_vars

\* the fetch returned after three callbacks named one URL under fetch, under
\* websocket and again: connect-src holds it once, counted once, and the
\* script URL the observer reported is there once as well
C29_Witness ==
    /\ fetch.pc = "done"
    /\ fetch.success
    /\ nops = MaxOps
    /\ Has(directives, "connect-src")
    /\ Get(directives, "connect-src") = <<U1>>
    /\ stats["external_connections"] = 1
    /\ Get(directives, "script-src") = <<U1>>
    /\ stats["external_scripts"] = 1
    /\ hashes["script-src"] = <<H1>>

----------------------------------------------------------------------------
(* The order of the stages *)

\* the stage after this one in the order INTERACTING, SCRAPING_STATIC,
\* PROCESSING_DYNAMIC, FINALIZING, DONE
C30After(pc) ==
    CASE pc = "interacting" -> "scraping"
      [] pc = "scraping" -> "dynamic"
      [] pc = "dynamic" -> "finalizing"
      [] pc = "finalizing" -> "done"

\* C30: in a fetch that succeeds with observe_dom enabled, the stages follow
\* one another in the order navigation, interaction, static scrape of the
\* snapshot, processing of the observed elements, final wait, done: every
\* step that leaves a stage without raising enters the next stage of that
\* order.
C30_StageOrder ==
    [][(/\ fetch.observe_dom
        /\ fetch.pc \in {"interacting", "scraping", "dynamic", "finalizing"}
        /\ fetch'.pc # fetch.pc
        /\ fetch'.outcome # "raised")
           => fetch'.pc = C30After(fetch.pc)]_vars

----------------------------------------------------------------------------
(* The hashes of a remote fetch, kind by kind *)

InBucket(bucket, text) == Sha256Token(text) \in Range(hashes[bucket])
\* the observed elements the processing took as an inline script, an inline
\* style, a style attribute
IsObservedScript(e) ==
    e.tag \in {Some("SCRIPT")} /\ e.content # "" /\ e.src = <<>>
IsObservedStyle(e) ==
    e.tag \in {Some("STYLE")} /\ e.content # "" /\ e.src = <<>>
IsObservedAttr(e) ==
    /\ e.tag # None
    /\ ~IsObservedScript(e) /\ ~IsObservedStyle(e)
    /\ ~(e.tag = Some("SCRIPT") /\ e.src # <<>>)
    /\ e.style \notin {"", " "}

\* C31: when a fetch has returned success, the hash of every non-blank
\* inline script, inline style (normalized) and style attribute (normalized)
\* that was processed, from the observed elements or from the snapshot, is
\* in the Hash Bucket of its own kind.
C31_PerKindHashes ==
    (fetch.pc = "done" /\ fetch.outcome = "returned" /\ fetch.success
        /\ fetch.content # None) =>
        LET oe == fetch.observed_elements
            snapshot == fetch.content[1]
        IN /\ \A i \in DOMAIN oe :
                /\ IsObservedScript(oe[i]) => InBucket("script-src", oe[i].content)
                /\ IsObservedStyle(oe[i]) =>
                       InBucket("style-src", normalize_css(oe[i].content))
                /\ IsObservedAttr(oe[i]) =>
                       InBucket("style-src-attr", normalize_css(oe[i].style))
           /\ \A i \in DOMAIN snapshot.inline_scripts :
                NonBlank(snapshot.inline_scripts[i]) =>
                    InBucket("script-src", snapshot.inline_scripts[i])
           /\ \A i \in DOMAIN snapshot.inline_styles :
                NonBlank(snapshot.inline_styles[i]) =>
                    InBucket("style-src", normalize_css(snapshot.inline_styles[i]))
           /\ \A i \in DOMAIN snapshot.style_attrs :
                NonBlank(snapshot.style_attrs[i]) =>
                    InBucket("style-src-attr", normalize_css(snapshot.style_attrs[i]))

----------------------------------------------------------------------------
(* Hash counters and Hash Buckets *)

\* C38: after any sequence of local scans and remote fetches, finished or
\* failed, on a Policy State that started fresh, unique_script_hashes is the
\* length of the script-src bucket and unique_style_hashes the length of the
\* style-src bucket plus that of the style-src-attr bucket.
C38_CountersMatchBuckets ==
    /\ stats["unique_script_hashes"] = Len(hashes["script-src"])
    /\ stats["unique_style_hashes"] =
           Len(hashes["style-src"]) + Len(hashes["style-src-attr"])

\* a local scan that failed half way and a fetch that raised in the final
\* wait, with all three buckets filled
C38_Witness ==
    /\ last.op = "scan_html_file"
    /\ ~last.ok
    /\ fetch.outcome = "raised"
    /\ stats["unique_script_hashes"] = 2
    /\ Len(hashes["style-src"]) = 1
    /\ Len(hashes["style-src-attr"]) = 1

----------------------------------------------------------------------------
(* Where the hashes of a remote fetch come from *)

\* the hashes of the inline content the sites of the model hold
SiteTokens == {<<"'sha256-1'">>, <<"'sha256-2'">>, <<"'sha256-a'">>}

\* C32: every token a remote fetch puts in a Hash Bucket is the hash of
\* inline content of the site; no bucket holds the hash of content that the
\* fetch itself put into the page.
C32_HashSoundness ==
    \A b \in DOMAIN hashes : Range(hashes[b]) \subseteq SiteTokens

----------------------------------------------------------------------------
(* generate, then validate *)

C34_BaselineAfterScan ==
    (last.op = "generate_validate" /\ last.config = <<>>) =>
        LET parsed == ParseCsp(last.stored)
        IN /\ {"default-src", "script-src", "object-src"} \subseteq Keys(parsed)
           /\ SELF \in Range(Get(parsed, "default-src"))
           /\ SELF \in Range(Get(parsed, "script-src"))
           /\ NONE \in Range(Get(parsed, "object-src"))

----------------------------------------------------------------------------
(* The fetch command *)

\* the external URLs of a page with the directive each belongs to
ExternalRefs(page) ==
    {<<"script-src", page.script_srcs[i]>> : i \in DOMAIN page.script_srcs}
    \cup {<<"style-src", page.link_hrefs[i]>> : i \in DOMAIN page.link_hrefs}
    \cup {<<"img-src", page.img_srcs[i]>> : i \in DOMAIN page.img_srcs}
    \cup {<<NetworkDirective(page.requests[i].resource_type), page.requests[i].url>> :
            i \in {j \in DOMAIN page.requests :
                     page.requests[j].resource_type \in
                        {"script", "stylesheet", "image", "font", "media", "fetch", "xhr"}}}
NamedRefs(page) == {r \in ExternalRefs(page) : r[2] # EMPTY}

\* C35: fetch_remote_site_async on a fresh CSPGenerator, a valid URL and a
\* page that loads and references or requests at least one external script,
\* stylesheet, image, font, media or connection URL returns True, and every
\* such URL is in its directive afterwards.
C35_FetchCommand ==
    [][(/\ last'.op = "fetch_remote_site_async"
        /\ nops' # nops
        /\ directives = <<>> /\ hashes = InitHashes /\ stats = InitStats
        /\ StartsWithScheme(last'.url)
        /\ last'.page[1].loads
        /\ NamedRefs(last'.page[1]) # {})
           => /\ last'.ok
              /\ \A r \in NamedRefs(last'.page[1]) :
                    Has(directives', r[1]) /\ r[2] \in Range(Get(directives', r[1]))]_vars

----------------------------------------------------------------------------
(* Interaction levels *)

Touches(interactions) ==
    {i \in DOMAIN interactions : interactions[i].e \in {"click", "hover"}}
Scrolls(interactions) == {i \in DOMAIN interactions : interactions[i].e = "scroll"}

\* C36: at level 0 nothing is done to the page; at level 1 it is scrolled and
\* nothing is clicked or hovered; at level 2 and above at most 5 elements
\* are clicked or hovered in all, each of them visible and enabled.
C36_BoundedInteraction ==
    last.op = "interact" =>
        LET done == last.interactions
        IN /\ last.level = 0 => done = <<>>
           /\ last.level = 1 => Scrolls(done) # {} /\ Touches(done) = {}
           /\ last.level >= 2 =>
                /\ Cardinality(Touches(done)) <= 5
                /\ \A i \in Touches(done) :
                     done[i].element.visible /\ done[i].element.enabled

----------------------------------------------------------------------------
(* The mutation-capture stage *)

Pulls(log) == {i \in DOMAIN log : log[i] \in {"pull", "pull_failed"}}
PastDynamic == fetch.pc \in {"scraping", "finalizing"} \/ fetch.content # None

C37_WitnessDisconnect ==
    /\ fetch.pc = "done"
    /\ fetch.success
    /\ fetch.observer = <<"setup", "pull", "disconnect_failed">>
    /\ Len(fetch.observed_elements) = 2

----------------------------------------------------------------------------
(* update_directive and empty source lists *)

\* C39: after update_directive(name, sources), whatever the list, the
\* directive name either keeps the source list it had (or stays absent) or
\* holds a non-empty source list; it is never left present with zero
\* sources.
C39_NeverEmptied ==
    [][last'.op = "update_directive" =>
         LET name == last'.directive
         IN \/ ~Has(directives', name) /\ ~Has(directives, name)
            \/ /\ Has(directives', name)
               /\ Has(directives, name)
               /\ Get(directives', name) = Get(directives, name)
            \/ Has(directives', name) /\ Get(directives', name) # <<>>
      ]_vars

----------------------------------------------------------------------------
(* Whitespace-insensitive style hashing *)

\* C40: two style texts that differ only in a comment, in whitespace next to
\* whitespace or next to { : ; }, or in a trailing ";" of the declaration
\* list have the same normalize_css result, so that a fetch observing both
\* adds at most one hash (one when the result is not empty); and
\* normalize_css applied to its own result gives that result again.
C40_WhitespaceInsensitive ==
    last.op = "normalize_css" =>
        LET r == last.css[1]
        IN /\ r.normalized = r.normalized_variant
           /\ Len(r.added) = (IF r.normalized = <<>> THEN 0 ELSE 1)
           /\ r.again = r.normalized

\* the part of C40 about two texts alone
C40_SameResult ==
    last.op = "normalize_css" =>
        last.css[1].normalized = last.css[1].normalized_variant

\* the part of C40 about idempotence alone
C40_Idempotent ==
    last.op = "normalize_css" => last.css[1].again = last.css[1].normalized

=============================================================================
